---------------------------- MODULE Spec2Model ----------------------------
(***************************************************************************)
(* Model of the eventflow status page backend:                             *)
(*   - the status aggregation of backend/app/api/status.py                 *)
(*     (compute_component_status, compute_global_status,                   *)
(*     get_status_overview),                                               *)
(*   - the incident and maintenance handlers that feed it                  *)
(*     (backend/app/api/incidents.py, backend/app/api/maintenance.py),     *)
(*   - the PagerDuty reconciliation of backend/app/services/pagerduty.py   *)
(*     driven by backend/app/api/datasources.py:sync_datasource.           *)
(***************************************************************************)
EXTENDS Integers, Sequences, FiniteSets, TLC

(***************************************************************************)
(* Enumerations of backend/app/models/models.py                            *)
(***************************************************************************)
Impact == {"degraded", "outage"}

ComponentStatus ==
    {"operational", "degraded", "partial_outage", "major_outage", "maintenance"}

IncidentStatus == {"investigating", "identified", "monitoring", "resolved"}

MaintenanceStatus == {"scheduled", "in_progress", "completed", "canceled"}

Severity == {"critical", "major", "minor", "info"}

\* ComponentBase.tier: Field(default=2, ge=0, le=3)
MinTier == 0
MaxTier == 3
Tiers == MinTier..MaxTier

\* Python's None where the value is otherwise a string ...
None == "None"

\* ... and an Optional[datetime]: <<>> is None, <<t>> is the time t.
NoTime == <<>>
At(t) == <<t>>

\* The component ids of the catalog (UUIDs in the code).
Comps == {"c1", "c2"}

(***************************************************************************)
(* Bounds of the two aggregation harnesses.                                *)
(***************************************************************************)
MaxCsIncidents == 2      \* unresolved incidents handed to compute_component_status
MaxCsMaintenance == 1    \* in-progress windows handed to compute_component_status
MaxGsComponents == 3     \* components, over all groups, handed to compute_global_status

\* All sequences over S of length 0..n.
SeqsUpTo(S, n) == UNION {[1..k -> S] : k \in 0..n}

\* Sequences over S without a repeated element (the rows of a junction table
\* with primary key (parent, component_id), in any order).
DistinctSeqs(S) ==
    {s \in SeqsUpTo(S, Cardinality(S)) : \A i, j \in 1..Len(s) : s[i] = s[j] => i = j}

VARIABLES
    component,              \* table component: id -> [tier, is_active, group_id]
    component_group,        \* table component_group: the group ids in display order
    incident,               \* table incident with its incident_component rows;
                            \* origin records the (datasource, external id) a sync run made it from
    maintenance_window,     \* table maintenance_window with its maintenance_component rows
    datasource,             \* table datasource
    external_incident,      \* table external_incident
    provider,               \* the incidents PagerDuty holds, per datasource
    pd_edited,              \* the incidents whose title and urgency were changed at PagerDuty
    run,                    \* the sync requests in flight, with their database sessions
    hung,                   \* the event loop is stuck in a database call that cannot return
    settled,                \* history: the last run of the datasource succeeded, alone, and the
                            \* provider's incidents have not changed since that run started
    now,                    \* the clock (datetime.utcnow / datetime.now)
    response,               \* the response of the last request served
    cs_component_id,        \* argument component_id of compute_component_status
    cs_active_incidents,    \* argument active_incidents: each incident is its incident_components
    cs_active_maintenance,  \* argument active_maintenance: each window is its maintenance_components
    cs_result,              \* the value returned, "pending" before the call
    gs_groups,              \* argument groups of compute_global_status
    gs_result,              \* the value returned, "pending" before the call
    pd_record,              \* a record of PagerDuty: its status and urgency
    pd_mapped               \* the status and severity mapped from it, "pending" before the call

dbVars == <<component, component_group, incident, maintenance_window, datasource, external_incident>>
sysVars == <<dbVars, provider, pd_edited, run, hung, settled, now, response>>
csVars == <<cs_component_id, cs_active_incidents, cs_active_maintenance, cs_result>>
gsVars == <<gs_groups, gs_result>>
mapVars == <<pd_record, pd_mapped>>
fnVars == <<csVars, gsVars, mapVars>>

(***************************************************************************)
(* compute_component_status (status.py 23-44)                              *)
(***************************************************************************)
NoReturn == "no_return"

\* The inner loop of lines 31-36 over one incident's incident_components,
\* from position k: the first link of the component returns.
RECURSIVE ScanIncidentComponents(_, _, _)
ScanIncidentComponents(component_id, ics, k) ==
    IF k > Len(ics) THEN NoReturn
    ELSE IF ics[k].component_id = component_id /\ ics[k].impact = "outage"
            THEN "major_outage"
    ELSE IF ics[k].component_id = component_id /\ ics[k].impact = "degraded"
            THEN "degraded"
    ELSE ScanIncidentComponents(component_id, ics, k + 1)

\* The outer loop of lines 30-36 over active_incidents, from position i.
RECURSIVE ScanIncidents(_, _, _)
ScanIncidents(component_id, active_incidents, i) ==
    IF i > Len(active_incidents) THEN NoReturn
    ELSE LET r == ScanIncidentComponents(component_id, active_incidents[i], 1)
         IN  IF r # NoReturn THEN r
             ELSE ScanIncidents(component_id, active_incidents, i + 1)

\* The loops of lines 39-42 over active_maintenance.
ScanMaintenance(component_id, active_maintenance) ==
    IF \E m \in 1..Len(active_maintenance) :
          \E k \in 1..Len(active_maintenance[m]) :
             active_maintenance[m][k].component_id = component_id
    THEN "maintenance"
    ELSE NoReturn

\* A variant that looks at the maintenance windows before the incidents.
MaintenanceBeforeIncidents(component_id, active_incidents, active_maintenance) ==
    LET byIncident == ScanIncidents(component_id, active_incidents, 1)
        byMaintenance == ScanMaintenance(component_id, active_maintenance)
    IN  IF byMaintenance # NoReturn THEN byMaintenance
        ELSE IF byIncident # NoReturn THEN byIncident
        ELSE "operational"

compute_component_status(component_id, active_incidents, active_maintenance) ==
    LET byIncident == ScanIncidents(component_id, active_incidents, 1)
        byMaintenance == ScanMaintenance(component_id, active_maintenance)
    IN  IF byIncident # NoReturn THEN byIncident
        ELSE IF byMaintenance # NoReturn THEN byMaintenance
        ELSE "operational"

(***************************************************************************)
(* compute_global_status (status.py 47-68)                                 *)
(***************************************************************************)
\* The components of all groups in iteration order (lines 53-54).
RECURSIVE FlattenGroups(_)
FlattenGroups(groups) ==
    IF groups = <<>> THEN <<>>
    ELSE Head(groups).components \o FlattenGroups(Tail(groups))

\* A variant that short-circuits for tier 0 only.
CriticalTierZeroOnly(tier) == tier <= 0

\* Line 57: the tiers whose major outage is the global status at once.
CriticalTier(tier) == tier <= 1

\* A variant that does not downgrade the outage of a low tier.
FlagsStatusNotDowngraded(has_outage, has_degraded, has_partial) ==
    IF has_outage THEN "major_outage"
    ELSE IF has_partial \/ has_degraded THEN "degraded"
    ELSE "operational"

\* A variant that forgets the partial outages.
FlagsStatusWithoutPartial(has_outage, has_degraded, has_partial) ==
    IF has_outage THEN "partial_outage"
    ELSE IF has_degraded THEN "degraded"
    ELSE "operational"

\* Lines 64-68: the status the flags give after the loop.
FlagsStatus(has_outage, has_degraded, has_partial) ==
    IF has_outage THEN "partial_outage"
    ELSE IF has_partial \/ has_degraded THEN "degraded"
    ELSE "operational"

\* The loop body of lines 55-62 from position k with the three flags;
\* returns at the first tier-0/1 major outage, and after the loop by lines 64-68.
RECURSIVE GlobalScan(_, _, _, _, _)
GlobalScan(cs, k, has_outage, has_degraded, has_partial) ==
    IF k > Len(cs)
    THEN FlagsStatus(has_outage, has_degraded, has_partial)
    ELSE IF cs[k].status = "major_outage"
         THEN IF CriticalTier(cs[k].tier) THEN "major_outage"
              ELSE GlobalScan(cs, k + 1, TRUE, has_degraded, has_partial)
    ELSE IF cs[k].status = "partial_outage"
         THEN GlobalScan(cs, k + 1, has_outage, has_degraded, TRUE)
    ELSE IF cs[k].status = "degraded"
         THEN GlobalScan(cs, k + 1, has_outage, TRUE, has_partial)
    ELSE GlobalScan(cs, k + 1, has_outage, has_degraded, has_partial)

compute_global_status(groups) ==
    GlobalScan(FlattenGroups(groups), 1, FALSE, FALSE, FALSE)


(***************************************************************************)
(* The stored state.  Rows are never deleted by the handlers modelled, so  *)
(* a table is a sequence and a row's id is its position.                   *)
(***************************************************************************)
MaxIncidents == 2        \* incidents created by create_incident
MaxWindows == 1          \* maintenance windows
MaxUpdates == 2          \* timeline entries add_incident_update may bring an incident to
MaxTime == 4             \* the clock stops the time-stamping handlers here

Groups == {"g1"}
GroupOrder == <<"g1">>       \* the groups, order_by(display_order, name), status.py 100-102
CompOrder == <<"c1", "c2">>  \* order_by(display_order, name), status.py 105-108

\* The catalog: c1 is a tier-1 and c2 a tier-3 active member of the group g1.
DefaultCatalog ==
    [c \in Comps |-> [tier |-> IF c = "c1" THEN 1 ELSE MaxTier,
                      is_active |-> TRUE, group_id |-> "g1"]]

Accepted(op) == [op |-> op, rejected |-> FALSE]
Rejected(op) == [op |-> op, rejected |-> TRUE]

ManualIncidents == {i \in 1..Len(incident) : incident[i].source = "manual"}

\* The incident row carries an UPDATE of a sync run whose transaction is still
\* open: a thread-pool handler that writes the row waits for the run to end.
IncidentLocked(incident_id) ==
    \E q \in DOMAIN run :
        /\ run[q].pc \in {"fetch_active", "fetch_resolved"}
        /\ \E e \in run[q].db.loaded :
              /\ run[q].db.touched[e].incident_id = incident_id
              /\ \/ run[q].db.touched[e].w_title
                 \/ run[q].db.touched[e].w_severity
                 \/ run[q].db.touched[e].w_status
                 \/ run[q].db.touched[e].w_resolved_at

(***************************************************************************)
(* incidents.py                                                            *)
(***************************************************************************)
\* create_incident (104-157): the incident, its initial update, its links.
create_incident(components) ==
    /\ ~hung
    /\ Cardinality(ManualIncidents) < MaxIncidents
    /\ now < MaxTime
    /\ incident' = Append(incident,
          [title |-> "title", status |-> "investigating", severity |-> "minor",
           started_at |-> now, resolved_at |-> NoTime, source |-> "manual",
           origin |-> <<>>, incident_components |-> components,
           updates |-> <<"investigating">>])
    /\ now' = now + 1
    /\ response' = Accepted("create_incident")
    /\ UNCHANGED <<component, component_group, maintenance_window, datasource, external_incident,
                   provider, pd_edited, run, hung, settled, fnVars>>

\* add_incident_update without the check of lines 172-173.
AddUpdateToResolved(incident_id, new_status) ==
    /\ ~hung
    /\ incident_id \in 1..Len(incident)
    /\ ~IncidentLocked(incident_id)
    /\ Len(incident[incident_id].updates) < MaxUpdates
    /\ incident' = [incident EXCEPT
          ![incident_id].status = IF new_status # None THEN new_status ELSE @,
          ![incident_id].updates =
              Append(@, IF new_status # None THEN new_status
                        ELSE incident[incident_id].status)]
    /\ response' = Accepted("add_incident_update")
    /\ UNCHANGED <<component, component_group, maintenance_window, datasource, external_incident,
                   provider, pd_edited, run, hung, settled, now, fnVars>>

\* add_incident_update (160-196); new_status is data.status, None when not
\* given.  The timeline `updates` holds the status_snapshot of each
\* IncidentUpdate row of the incident, oldest first.
add_incident_update(incident_id, new_status) ==
    /\ ~hung
    /\ incident_id \in 1..Len(incident)
    /\ IF incident[incident_id].status = "resolved"
       THEN /\ response' = Rejected("add_incident_update")
            /\ UNCHANGED incident
       ELSE /\ ~IncidentLocked(incident_id)
            /\ Len(incident[incident_id].updates) < MaxUpdates
            /\ incident' = [incident EXCEPT
                  ![incident_id].status = IF new_status # None THEN new_status ELSE @,
                  ![incident_id].updates =
                      Append(@, IF new_status # None THEN new_status
                                ELSE incident[incident_id].status)]
            /\ response' = Accepted("add_incident_update")
    /\ UNCHANGED <<component, component_group, maintenance_window, datasource, external_incident,
                   provider, pd_edited, run, hung, settled, now, fnVars>>

\* resolve_incident (199-232)
resolve_incident(incident_id) ==
    /\ ~hung
    /\ incident_id \in 1..Len(incident)
    /\ IF incident[incident_id].status = "resolved"
       THEN /\ response' = Rejected("resolve_incident")
            /\ UNCHANGED <<incident, now>>
       ELSE /\ now < MaxTime
            /\ ~IncidentLocked(incident_id)
            /\ incident' = [incident EXCEPT
                  ![incident_id].status = "resolved",
                  ![incident_id].resolved_at = At(now),
                  ![incident_id].updates = Append(@, "resolved")]
            /\ now' = now + 1
            /\ response' = Accepted("resolve_incident")
    /\ UNCHANGED <<component, component_group, maintenance_window, datasource, external_incident,
                   provider, pd_edited, run, hung, settled, fnVars>>

(***************************************************************************)
(* maintenance.py                                                          *)
(***************************************************************************)
\* The start_at / end_at values requests carry.
MaintenanceTimes == {3, 4}

\* create_maintenance (94-142)
create_maintenance(start_at, end_at, components) ==
    /\ ~hung
    /\ Len(maintenance_window) < MaxWindows
    /\ IF end_at <= start_at
       THEN /\ response' = Rejected("create_maintenance")
            /\ UNCHANGED maintenance_window
       ELSE /\ maintenance_window' = Append(maintenance_window,
                  [status |-> "scheduled", start_at |-> start_at, end_at |-> end_at,
                   maintenance_components |-> components])
            /\ response' = Accepted("create_maintenance")
    /\ UNCHANGED <<component, component_group, incident, datasource, external_incident,
                   provider, pd_edited, run, hung, settled, now, fnVars>>

\* update_maintenance (145-170): every field the request sets is written as it
\* is; start_at / end_at are NoTime when the request leaves them unset.
update_maintenance(maintenance_id, start_at, end_at) ==
    /\ ~hung
    /\ maintenance_id \in 1..Len(maintenance_window)
    /\ IF maintenance_window[maintenance_id].status \in {"completed", "canceled"}
       THEN /\ response' = Rejected("update_maintenance")
            /\ UNCHANGED maintenance_window
       ELSE /\ maintenance_window' = [maintenance_window EXCEPT
                  ![maintenance_id].start_at = IF start_at # NoTime THEN start_at[1] ELSE @,
                  ![maintenance_id].end_at = IF end_at # NoTime THEN end_at[1] ELSE @]
            /\ response' = Accepted("update_maintenance")
    /\ UNCHANGED <<component, component_group, incident, datasource, external_incident,
                   provider, pd_edited, run, hung, settled, now, fnVars>>

\* A variant of the status handlers that does not look at the window's status.
TransitionFromAnyStatus(op, maintenance_id, from, to) ==
    /\ ~hung
    /\ maintenance_id \in 1..Len(maintenance_window)
    /\ maintenance_window' =
          [maintenance_window EXCEPT ![maintenance_id].status = to]
    /\ response' = Accepted(op)
    /\ UNCHANGED <<component, component_group, incident, datasource, external_incident,
                   provider, pd_edited, run, hung, settled, now, fnVars>>

\* The three status handlers: reject unless the window's status is in `from`.
MaintenanceTransition(op, maintenance_id, from, to) ==
    /\ ~hung
    /\ maintenance_id \in 1..Len(maintenance_window)
    /\ IF maintenance_window[maintenance_id].status \notin from
       THEN /\ response' = Rejected(op)
            /\ UNCHANGED maintenance_window
       ELSE /\ maintenance_window' =
                  [maintenance_window EXCEPT ![maintenance_id].status = to]
            /\ response' = Accepted(op)
    /\ UNCHANGED <<component, component_group, incident, datasource, external_incident,
                   provider, pd_edited, run, hung, settled, now, fnVars>>

\* start_maintenance (173-193)
start_maintenance(maintenance_id) ==
    MaintenanceTransition("start_maintenance", maintenance_id,
                          {"scheduled"}, "in_progress")

\* complete_maintenance (196-216)
complete_maintenance(maintenance_id) ==
    MaintenanceTransition("complete_maintenance", maintenance_id,
                          {"in_progress"}, "completed")

\* cancel_maintenance (219-239)
cancel_maintenance(maintenance_id) ==
    MaintenanceTransition("cancel_maintenance", maintenance_id,
                          {"scheduled", "in_progress"}, "canceled")

(***************************************************************************)
(* components.py                                                           *)
(***************************************************************************)
\* A field the request does not set (model_dump(exclude_unset=True)).
Unset == "unset"

\* update_component (166-188): every field the request sets is written, a
\* null group_id included.  A group_id that is no group's id violates the
\* foreign key of models.py 84 and nothing is written.
update_component(component_id, group_id, is_active) ==
    /\ ~hung
    /\ IF group_id \notin {Unset, None}
          /\ \A k \in DOMAIN component_group : component_group[k] # group_id
       THEN /\ response' = Rejected("update_component")
            /\ UNCHANGED component
       ELSE /\ component' = [component EXCEPT
                  ![component_id].group_id = IF group_id # Unset THEN group_id ELSE @,
                  ![component_id].is_active = IF is_active # <<>> THEN is_active[1] ELSE @]
            /\ response' = Accepted("update_component")
    /\ UNCHANGED <<component_group, incident, maintenance_window, datasource,
                   external_incident, provider, pd_edited, run, hung, settled, now, fnVars>>

\* create_group (34-48): the group g comes last in the display order.
create_group(g) ==
    /\ ~hung
    /\ \A k \in DOMAIN component_group : component_group[k] # g
    /\ component_group' = Append(component_group, g)
    /\ response' = Accepted("create_group")
    /\ UNCHANGED <<component, incident, maintenance_window, datasource,
                   external_incident, provider, pd_edited, run, hung, settled, now, fnVars>>

(***************************************************************************)
(* status.py: get_status_overview (71-170)                                 *)
(***************************************************************************)
\* A variant that does not filter the incidents.
EveryIncident(i) == TRUE

\* Lines 77-80: the incidents whose status is not resolved ...
ActiveIncidentFilter(i) == incident[i].status # "resolved"

ActiveIncidentIds == {i \in 1..Len(incident) : ActiveIncidentFilter(i)}

\* ... ordered by started_at descending; rows of equal started_at come in
\* the order the database pleases.
ActiveIncidentOrders ==
    {o \in [1..Cardinality(ActiveIncidentIds) -> ActiveIncidentIds] :
        /\ \A i, j \in DOMAIN o : o[i] = o[j] => i = j
        /\ \A i, j \in DOMAIN o :
              i < j => incident[o[i]].started_at >= incident[o[j]].started_at}

\* A variant that takes every window not yet over.
OpenMaintenance(m) == maintenance_window[m].status \in {"scheduled", "in_progress"}

\* Lines 84-86: the windows whose status is in_progress.
ActiveMaintenanceFilter(m) == maintenance_window[m].status = "in_progress"

RECURSIVE ActiveMaintenanceFrom(_)
ActiveMaintenanceFrom(m) ==
    IF m > Len(maintenance_window) THEN <<>>
    ELSE (IF ActiveMaintenanceFilter(m)
          THEN <<maintenance_window[m].maintenance_components>> ELSE <<>>)
         \o ActiveMaintenanceFrom(m + 1)

\* A variant that lists the inactive components of the group too.
RECURSIVE ComponentStatusesOfAll(_, _, _, _)
ComponentStatusesOfAll(order, group_id, active_incidents, active_maintenance) ==
    IF order = <<>> THEN <<>>
    ELSE (IF component[Head(order)].group_id = group_id
          THEN <<[id |-> Head(order),
                  status |-> compute_component_status(Head(order), active_incidents,
                                                      active_maintenance),
                  tier |-> component[Head(order)].tier]>>
          ELSE <<>>)
         \o ComponentStatusesOfAll(Tail(order), group_id, active_incidents,
                                   active_maintenance)

\* Lines 113-122: the ComponentStatusInfo list of the active components of
\* the group among `order`.
RECURSIVE ComponentStatuses(_, _, _, _)
ComponentStatuses(order, group_id, active_incidents, active_maintenance) ==
    IF order = <<>> THEN <<>>
    ELSE (IF component[Head(order)].group_id = group_id /\ component[Head(order)].is_active
          THEN <<[id |-> Head(order),
                  status |-> compute_component_status(Head(order), active_incidents,
                                                      active_maintenance),
                  tier |-> component[Head(order)].tier]>>
          ELSE <<>>)
         \o ComponentStatuses(Tail(order), group_id, active_incidents, active_maintenance)

\* Lines 111-129: one GroupStatusInfo per group that has an active component.
RECURSIVE GroupStatuses(_, _, _)
GroupStatuses(groups, active_incidents, active_maintenance) ==
    IF groups = <<>> THEN <<>>
    ELSE LET component_statuses ==
                 ComponentStatuses(CompOrder, Head(groups), active_incidents,
                                   active_maintenance)
         IN  (IF component_statuses # <<>>
              THEN <<[id |-> Head(groups), components |-> component_statuses]>>
              ELSE <<>>)
             \o GroupStatuses(Tail(groups), active_incidents, active_maintenance)

\* Lines 105-108: the active components of no group.
Ungrouped(c) == component[c].group_id = None /\ component[c].is_active

\* The response for the unresolved incidents in the order `order`.  The
\* pseudo-group of lines 142-146 is built with id=None, which GroupStatusInfo
\* (id: UUID, schemas.py 259-263) does not validate: the request fails.
OverviewResponse(order) ==
    LET active_incidents == [k \in DOMAIN order |-> incident[order[k]].incident_components]
        active_maintenance == ActiveMaintenanceFrom(1)
        group_statuses == GroupStatuses(component_group, active_incidents,
                                        active_maintenance)
    IN  IF \E c \in Comps : Ungrouped(c)
        THEN [op |-> "get_status_overview", rejected |-> TRUE]
        ELSE [op |-> "get_status_overview", rejected |-> FALSE,
              global_status |-> compute_global_status(group_statuses),
              groups |-> group_statuses]

get_status_overview ==
    /\ ~hung
    /\ \E order \in ActiveIncidentOrders : response' = OverviewResponse(order)
    /\ UNCHANGED <<dbVars, provider, pd_edited, run, hung, settled, now, fnVars>>

(***************************************************************************)
(* The provider and the datasource table                                   *)
(***************************************************************************)
Datasources == {"d1", "d2"}
ExtIds == {"P1", "P2", "P3"} \* the ids PagerDuty gives its incidents
Runs == {"r1", "r2", "r3"}   \* the sync requests the server serves at a time
Pair == {"r1", "r2"}         \* the requests of a specification about two runs

PdStatus == {"triggered", "acknowledged", "resolved"}

\* A key the record does not have.
NoKey == "no_key"

\* The incidents whose record comes without the key "title".
Untitled == {"P3"}

\* The record GET /incidents returns for the incident e of d in status st.
\* The timestamps are ISO strings; all incidents carry the same created_at.
\* P1 is of high urgency and the others of low, until they are edited.
PdIncident(d, e, st) ==
    [id |-> e, status |-> st,
     title |-> IF e \in Untitled THEN NoKey
               ELSE IF <<d, e>> \in pd_edited THEN "title (edited)" ELSE "title",
     urgency |-> IF (e = "P1") # (<<d, e>> \in pd_edited) THEN "high" ELSE "low",
     created_at |-> "T0",
     resolved_at |-> IF st = "resolved" THEN "T1" ELSE None]

\* datetime.fromisoformat of the two timestamps above.
fromisoformat(s) == IF s = "T0" THEN 0 ELSE 1

\* PagerDutyClient.get_incidents (pagerduty.py 48-81) answering 200: the
\* incidents of d whose status is in `statuses`, in any order (they are
\* sorted by created_at, which they share).
get_incidents(d, statuses) ==
    LET ids == {e \in ExtIds : provider[d][e] \in statuses}
    IN  {[k \in DOMAIN o |-> PdIncident(d, o[k], provider[d][o[k]])] :
            o \in {q \in [1..Cardinality(ids) -> ids] :
                      \A i, j \in DOMAIN q : q[i] = q[j] => i = j}}

\* map_pd_severity (84-86)
map_pd_severity(urgency) == IF urgency = "high" THEN "critical" ELSE "major"

\* A variant whose table has no default.
MapStatusWithoutDefault(status) ==
    IF status = "triggered" THEN "investigating"
    ELSE IF status = "acknowledged" THEN "identified"
    ELSE IF status = "resolved" THEN "resolved"
    ELSE None

\* map_pd_status (89-96)
map_pd_status(status) ==
    IF status = "triggered" THEN "investigating"
    ELSE IF status = "acknowledged" THEN "identified"
    ELSE IF status = "resolved" THEN "resolved"
    ELSE "investigating"

\* SyncResult (datasources.py 67-72) with its defaults; raised = the request
\* ended in an unhandled exception instead of a SyncResult.
SyncResult(success, created, updated, total_fetched, error) ==
    [raised |-> FALSE, success |-> success, created |-> created,
     updated |-> updated, total_fetched |-> total_fetched, error |-> error]

Unhandled(error) ==
    [raised |-> TRUE, success |-> FALSE, created |-> 0,
     updated |-> 0, total_fetched |-> 0, error |-> error]

(***************************************************************************)
(* The database session of a run (SessionLocal, database.py 26:            *)
(* autoflush=False).  Its unit of work holds                               *)
(*   new     - the incidents the run has added, each with the link added   *)
(*             after it; the incident is INSERTed by the flush of line 171 *)
(*             that follows its add, the link by the next flush;           *)
(*   loaded  - the external ids whose link row and incident the run has    *)
(*             loaded, touched[e] holding their attributes: the values in  *)
(*             the session, the values last read from or written to the    *)
(*             database (base_), the columns UPDATEd so far (w_);          *)
(*   ins/upd - the link keys the run has INSERTed / UPDATEd in its open    *)
(*             transaction, which it holds locked until it ends.           *)
(* A link's incident is never null: no handler modelled deletes incidents. *)
(***************************************************************************)
Untouched ==
    [row |-> 0, incident_id |-> 0,
     title |-> None, severity |-> None, status |-> None, resolved_at |-> NoTime,
     base_title |-> None, base_severity |-> None,
     base_status |-> None, base_resolved_at |-> NoTime,
     w_title |-> FALSE, w_severity |-> FALSE,
     w_status |-> FALSE, w_resolved_at |-> FALSE,
     raw_data |-> <<>>, synced_at |-> 0, link_dirty |-> FALSE, link_written |-> FALSE]

\* raw_data holds the fields of the record stored that may differ between
\* two fetches of the same incident.
RawData(rec) == <<rec.status, rec.title, rec.urgency>>

EmptySession ==
    [new |-> <<>>, loaded |-> {}, touched |-> [e \in ExtIds |-> Untouched],
     ins |-> {}, upd |-> {}, created |-> 0, updated |-> 0]

IdleRun ==
    [pc |-> "idle", datasource_id |-> None, db |-> EmptySession, total_fetched |-> 0,
     result |-> SyncResult(FALSE, 0, 0, 0, None), quiet |-> FALSE, steady |-> FALSE, repeat |-> FALSE,
     added |-> [incidents |-> 0, links |-> 0]]

InFlight(q) == run[q].pc \in {"fetch_active", "fetch_resolved"}

\* The runs in flight for the datasource d other than r.
Others(r, d) == {q \in Runs \ {r} : InFlight(q) /\ run[q].datasource_id = d}

Min(S) == CHOOSE k \in S : \A j \in S : k <= j

\* A variant that looks the link up by the external id alone.
LinkRowsByExternalId(d, e) ==
    {k \in 1..Len(external_incident) : external_incident[k].external_id = e}

\* The rows of external_incident with the key (d, e).
LinkRows(d, e) ==
    {k \in 1..Len(external_incident) :
        /\ external_incident[k].datasource_id = d
        /\ external_incident[k].external_id = e}

\* The query of lines 140-143 and 194-197: a committed row, or the run's own
\* link once it is flushed; a link still pending in the session is not seen.
Existing(db, d, e) ==
    LET own == {k \in 1..Len(db.new) :
                   db.new[k].external_id = e /\ db.new[k].link_flushed}
    IN  IF LinkRows(d, e) # {} THEN [kind |-> "row", at |-> Min(LinkRows(d, e))]
        ELSE IF own # {} THEN [kind |-> "new", at |-> Min(own)]
        ELSE [kind |-> "none", at |-> 0]

\* Loading the link row k and its incident into the session's identity map
\* (a later query for the same row returns the object already held).
Load(db, e, k) ==
    IF e \in db.loaded THEN db
    ELSE LET i == external_incident[k].incident_id
         IN  [db EXCEPT
                !.loaded = @ \cup {e},
                !.touched[e] =
                    [row |-> k, incident_id |-> i,
                     title |-> incident[i].title,
                     severity |-> incident[i].severity,
                     status |-> incident[i].status,
                     resolved_at |-> incident[i].resolved_at,
                     base_title |-> incident[i].title,
                     base_severity |-> incident[i].severity,
                     base_status |-> incident[i].status,
                     base_resolved_at |-> incident[i].resolved_at,
                     w_title |-> FALSE, w_severity |-> FALSE,
                     w_status |-> FALSE, w_resolved_at |-> FALSE,
                     raw_data |-> external_incident[k].raw_data,
                     synced_at |-> external_incident[k].synced_at,
                     link_dirty |-> FALSE, link_written |-> FALSE]]

\* A variant where the index is not unique.
PlainIndex(d, e, locked) == "ok"

\* models.py 335: Index("idx_external_incident_external_id", "datasource_id",
\* "external_id", unique=True).
\* What the INSERT of a link with key (d, e) meets: a row with that key
\* written by a transaction still open (the INSERT waits for it), a
\* committed row with that key (IntegrityError), or neither.
idx_external_incident_external_id(d, e, locked) ==
    IF e \in locked THEN "blocked"
    ELSE IF LinkRows(d, e) # {} THEN "integrity_error"
    ELSE "ok"

\* Session.flush: the UPDATEs of the loaded links, then the INSERTs of the
\* pending links in the order they were added.  The first statement that
\* cannot proceed decides.  others_ins / others_upd are the keys the other
\* open transactions have inserted / updated.
FlushOutcome(db, d, others_ins, others_upd) ==
    IF \E e \in db.loaded : db.touched[e].link_dirty /\ e \in others_upd
    THEN "blocked"
    ELSE LET met(k) == idx_external_incident_external_id(d, db.new[k].external_id,
                                                  others_ins \cup others_upd)
             bad == {k \in 1..Len(db.new) : ~db.new[k].link_flushed /\ met(k) # "ok"}
         IN  IF bad = {} THEN "ok" ELSE met(Min(bad))

\* The session after a flush that went through.
Flushed(db) ==
    [db EXCEPT
        !.new = [k \in DOMAIN db.new |-> [db.new[k] EXCEPT !.link_flushed = TRUE]],
        !.touched = [e \in ExtIds |->
            LET t == db.touched[e]
            IN  IF e \notin db.loaded THEN t
                ELSE [t EXCEPT
                        !.w_title = @ \/ t.title # t.base_title,
                        !.w_severity = @ \/ t.severity # t.base_severity,
                        !.w_status = @ \/ t.status # t.base_status,
                        !.w_resolved_at = @ \/ t.resolved_at # t.base_resolved_at,
                        !.base_title = t.title,
                        !.base_severity = t.severity,
                        !.base_status = t.status,
                        !.base_resolved_at = t.resolved_at,
                        !.link_written = @ \/ t.link_dirty,
                        !.link_dirty = FALSE]],
        !.ins = @ \cup {db.new[k].external_id : k \in DOMAIN db.new},
        !.upd = @ \cup {e \in db.loaded : db.touched[e].link_dirty}]

(***************************************************************************)
(* pagerduty.py: the two merge loops of sync_pagerduty_incidents           *)
(***************************************************************************)
\* A variant that counts an updated record as created.
CountCreated(db) == [db EXCEPT !.created = @ + 1]

\* Lines 157 and 207: updated += 1.
CountUpdated(db) == [db EXCEPT !.updated = @ + 1]

\* Lines 148-149, in the loop over the active records only: the title and the
\* severity of the incident of the link `found`.
RefreshDetails(db, e, found, rec) ==
    IF found.kind = "row"
    THEN [Load(db, e, found.at) EXCEPT
            !.touched[e].title = rec.title,
            !.touched[e].severity = map_pd_severity(rec.urgency)]
    ELSE [db EXCEPT !.new[found.at].title = rec.title,
                    !.new[found.at].severity = map_pd_severity(rec.urgency)]

\* A variant of the update path that leaves resolved_at as it is.
RefreshWithoutResolvedAt(db, e, found, rec, t, new_status, set_resolved_at) ==
    IF found.kind = "row"
    THEN LET l == Load(db, e, found.at)
         IN  CountUpdated(
                [l EXCEPT !.touched[e].status = new_status,
                          !.touched[e].raw_data = RawData(rec),
                          !.touched[e].synced_at = t,
                          !.touched[e].link_dirty = TRUE])
    ELSE CountUpdated(
            [db EXCEPT !.new[found.at].status = new_status,
                       !.new[found.at].raw_data = RawData(rec),
                       !.new[found.at].synced_at = t])

\* The update path: lines 147-157 in the loop over the active records,
\* lines 200-207 in the loop over the resolved ones.  `found` is the link the
\* query returned, new_status the status written, set_resolved_at the
\* condition of lines 151 / 201.
Refresh(db, e, found, rec, t, new_status, set_resolved_at) ==
    LET resolved_at(old) ==
            IF set_resolved_at THEN At(fromisoformat(rec.resolved_at)) ELSE old
    IN  IF found.kind = "row"
        THEN LET l == Load(db, e, found.at)
             IN  CountUpdated(
                    [l EXCEPT !.touched[e].status = new_status,
                              !.touched[e].resolved_at = resolved_at(@),
                              !.touched[e].raw_data = RawData(rec),
                              !.touched[e].synced_at = t,
                              !.touched[e].link_dirty = TRUE])
        ELSE CountUpdated(
                [db EXCEPT !.new[found.at].status = new_status,
                           !.new[found.at].resolved_at = resolved_at(@),
                           !.new[found.at].raw_data = RawData(rec),
                           !.new[found.at].synced_at = t])

\* A variant of the create path that does not count the record.
CreateUncounted(db, d, rec, t, others_ins, others_upd) ==
    LET outcome == FlushOutcome(db, d, others_ins, others_upd)
    IN  IF outcome # "ok" THEN [db |-> db, outcome |-> outcome]
        ELSE [db |-> [Flushed(db) EXCEPT
                        !.new = Append(@,
                            [external_id |-> rec.id,
                             title |-> rec.title,
                             status |-> map_pd_status(rec.status),
                             severity |-> map_pd_severity(rec.urgency),
                             started_at |-> fromisoformat(rec.created_at),
                             resolved_at |-> NoTime,
                             raw_data |-> RawData(rec), synced_at |-> t,
                             link_flushed |-> FALSE])],
              outcome |-> "ok"]

\* The create path, lines 160-183: the incident is added and the session
\* flushed (line 171), then the link is added and stays pending.
Create(db, d, rec, t, others_ins, others_upd) ==
    LET outcome == FlushOutcome(db, d, others_ins, others_upd)
    IN  IF outcome # "ok" THEN [db |-> db, outcome |-> outcome]
        ELSE [db |-> [Flushed(db) EXCEPT
                        !.new = Append(@,
                            [external_id |-> rec.id,
                             title |-> rec.title,
                             status |-> map_pd_status(rec.status),
                             severity |-> map_pd_severity(rec.urgency),
                             started_at |-> fromisoformat(rec.created_at),
                             resolved_at |-> NoTime,
                             raw_data |-> RawData(rec), synced_at |-> t,
                             link_flushed |-> FALSE]),
                        !.created = @ + 1],
              outcome |-> "ok"]

\* Lines 136-183 from record k of `incidents` on.
RECURSIVE MergeActive(_, _, _, _, _, _, _)
MergeActive(db, d, incidents, k, t, others_ins, others_upd) ==
    IF k > Len(incidents) THEN [db |-> db, outcome |-> "ok"]
    ELSE LET pd_incident == incidents[k]
             existing == Existing(db, d, pd_incident.id)
         IN  IF pd_incident.title = NoKey
             THEN \* pd_incident["title"] of line 148 / 161 raises KeyError
                  \* before anything of the record is written or added.
                  [db |-> db, outcome |-> "key_error"]
             ELSE IF existing.kind # "none"
             THEN MergeActive(
                    Refresh(RefreshDetails(db, pd_incident.id, existing, pd_incident),
                            pd_incident.id, existing, pd_incident, t,
                            map_pd_status(pd_incident.status),
                            pd_incident.status = "resolved"
                                /\ pd_incident.resolved_at # None),
                    d, incidents, k + 1, t, others_ins, others_upd)
             ELSE LET c == Create(db, d, pd_incident, t, others_ins, others_upd)
                  IN  IF c.outcome # "ok" THEN c
                      ELSE MergeActive(c.db, d, incidents, k + 1, t,
                                       others_ins, others_upd)

\* A variant that creates an incident for a resolved record without a link.
RECURSIVE MergeResolvedCreating(_, _, _, _, _)
MergeResolvedCreating(db, d, resolved_incidents, k, t) ==
    IF k > Len(resolved_incidents) THEN db
    ELSE LET pd_incident == resolved_incidents[k]
             existing == Existing(db, d, pd_incident.id)
         IN  MergeResolvedCreating(
                IF existing.kind # "none"
                THEN Refresh(db, pd_incident.id, existing, pd_incident, t,
                             "resolved", pd_incident.resolved_at # None)
                ELSE Create(db, d, pd_incident, t, {}, {}).db,
                d, resolved_incidents, k + 1, t)

\* Lines 192-207 from record k of `resolved_incidents` on.
RECURSIVE MergeResolved(_, _, _, _, _)
MergeResolved(db, d, resolved_incidents, k, t) ==
    IF k > Len(resolved_incidents) THEN db
    ELSE LET pd_incident == resolved_incidents[k]
             existing == Existing(db, d, pd_incident.id)
         IN  MergeResolved(
                IF existing.kind # "none"
                THEN Refresh(db, pd_incident.id, existing, pd_incident, t,
                             "resolved", pd_incident.resolved_at # None)
                ELSE db,
                d, resolved_incidents, k + 1, t)

\* The tables after the session's transaction commits.  A new incident gets
\* the next free position as its id.
Committed(db, d) ==
    LET f == Flushed(db)
        of_incident(i) == {e \in f.loaded : f.touched[e].incident_id = i}
        of_row(k) == {e \in f.loaded : f.touched[e].row = k}
    IN  [incident |->
            [i \in 1..Len(incident) |->
                IF of_incident(i) = {} THEN incident[i]
                ELSE LET t == f.touched[CHOOSE e \in of_incident(i) : TRUE]
                     IN  [incident[i] EXCEPT
                            !.title = IF t.w_title THEN t.title ELSE @,
                            !.severity = IF t.w_severity THEN t.severity ELSE @,
                            !.status = IF t.w_status THEN t.status ELSE @,
                            !.resolved_at =
                                IF t.w_resolved_at THEN t.resolved_at ELSE @]]
            \o [k \in DOMAIN f.new |->
                  [title |-> f.new[k].title,
                   status |-> f.new[k].status, severity |-> f.new[k].severity,
                   started_at |-> f.new[k].started_at,
                   resolved_at |-> f.new[k].resolved_at,
                   source |-> "pagerduty", origin |-> <<d, f.new[k].external_id>>,
                   incident_components |-> <<>>, updates |-> <<>>]],
         external_incident |->
            [k \in 1..Len(external_incident) |->
                IF of_row(k) = {} THEN external_incident[k]
                ELSE LET t == f.touched[CHOOSE e \in of_row(k) : TRUE]
                     IN  IF t.link_written
                         THEN [external_incident[k] EXCEPT
                                 !.raw_data = t.raw_data, !.synced_at = t.synced_at]
                         ELSE external_incident[k]]
            \o [k \in DOMAIN f.new |->
                  [datasource_id |-> d, external_id |-> f.new[k].external_id,
                   incident_id |-> Len(incident) + k,
                   raw_data |-> f.new[k].raw_data, synced_at |-> f.new[k].synced_at]]]

(***************************************************************************)
(* One sync request: datasources.py sync_datasource (266-282) calling      *)
(* pagerduty.py sync_pagerduty_incidents (99-226).  The handler is a       *)
(* coroutine on the server's one event loop: between two awaits it runs    *)
(* without interruption, at each await (the two get_incidents calls) other *)
(* requests are served.  Its database calls are synchronous: one that      *)
(* waits for a lock held by another run of the same loop never returns.    *)
(***************************************************************************)
Ended(r, result, added) ==
    [run[r] EXCEPT !.pc = "done", !.db = EmptySession, !.total_fetched = 0,
                   !.result = result, !.quiet = FALSE, !.steady = FALSE,
                   !.added = added]

NothingAdded == [incidents |-> 0, links |-> 0]

\* str(KeyError("title")), the message of a record without "title".
KeyErrorTitle == "'title'"

\* db.commit() of the session `db` of run r: line 213 with in_handler FALSE,
\* line 225 (inside the except clause) with in_handler TRUE.  row is the
\* datasource row the commit writes, result what the run returns after it.
Commit(r, db, in_handler, row, result) ==
    LET d == run[r].datasource_id
        others_ins == UNION {run[q].db.ins : q \in Others(r, d)}
        others_upd == UNION {run[q].db.upd : q \in Others(r, d)}
        outcome == FlushOutcome(db, d, others_ins, others_upd)
        after == Committed(db, d)
    IN  CASE outcome = "ok" ->
              /\ incident' = after.incident
              /\ external_incident' = after.external_incident
              /\ datasource' = [datasource EXCEPT ![d] = row]
              /\ run' = [run EXCEPT ![r] = Ended(r, result,
                            [incidents |-> Len(after.incident) - Len(incident),
                             links |-> Len(after.external_incident)
                                          - Len(external_incident)])]
              /\ settled' = [settled EXCEPT ![d] = run[r].quiet /\ result.success]
              /\ UNCHANGED hung
          [] outcome = "blocked" ->
              /\ hung' = TRUE
              /\ run' = [run EXCEPT ![r].pc = "blocked"]
              /\ UNCHANGED <<incident, external_incident, datasource, settled>>
          [] outcome = "integrity_error" ->
              \* The transaction is rolled back.  From line 213 the except
              \* clause then commits the error alone; from line 225 the
              \* exception leaves the handler.
              /\ IF in_handler
                 THEN /\ run' = [run EXCEPT ![r] =
                            Ended(r, Unhandled("IntegrityError"), NothingAdded)]
                      /\ UNCHANGED datasource
                 ELSE /\ run' = [run EXCEPT ![r] =
                            Ended(r, SyncResult(FALSE, 0, 0, 0, "IntegrityError"),
                                  NothingAdded)]
                      /\ datasource' = [datasource EXCEPT
                            ![d].sync_status = "error",
                            ![d].sync_error = "IntegrityError"]
              /\ settled' = [settled EXCEPT ![d] = FALSE]
              /\ UNCHANGED <<incident, external_incident, hung>>

\* A variant that records the message but leaves sync_status as it is.
ErrorRowStillSyncing(d, error) == [datasource[d] EXCEPT !.sync_error = error]

\* Lines 222-226 with the message of the exception caught.
ErrorRow(d, error) ==
    [datasource[d] EXCEPT !.sync_status = "error", !.sync_error = error]

\* A variant that leaves the message of an earlier failure in place.
SuccessRowKeepingError(d) ==
    [datasource[d] EXCEPT !.sync_status = "success", !.last_sync_at = At(now)]

\* Lines 210-212.
SuccessRow(d) ==
    [datasource[d] EXCEPT !.sync_status = "success", !.last_sync_at = At(now),
                          !.sync_error = None]

\* A variant that sets syncing before it reads the configuration.
SyncMarkingFirst(r, d) ==
    /\ ~hung
    /\ run[r].pc \in {"idle", "done"}
    /\ now < MaxTime
    /\ now' = now + 1
    /\ IF datasource[d].provider_type # "pagerduty"
       THEN \* datasources.py 282
            /\ run' = [run EXCEPT ![r] =
                  [IdleRun EXCEPT !.pc = "done", !.datasource_id = d,
                        !.result = SyncResult(FALSE, 0, 0, 0, "Unknown provider")]]
            /\ UNCHANGED <<datasource, settled>>
       ELSE IF datasource[d].config # "valid"
       THEN \* pagerduty.py 111 / 115 return a dict without "success", which
            \* SyncResult(**result) (datasources.py 280) does not validate.
            /\ run' = [run EXCEPT ![r] =
                  [IdleRun EXCEPT !.pc = "done", !.datasource_id = d,
                        !.result = Unhandled("ValidationError")]]
            /\ datasource' = [datasource EXCEPT ![d].sync_status = "syncing"]
            /\ UNCHANGED settled
       ELSE \* pagerduty.py 121-122, then the await of line 128
            /\ datasource' = [datasource EXCEPT ![d].sync_status = "syncing"]
            /\ run' = [q \in Runs |->
                  IF q = r
                  THEN [IdleRun EXCEPT !.pc = "fetch_active", !.datasource_id = d,
                            !.quiet = (Others(r, d) = {}),
                            !.steady = TRUE,
                            !.repeat = (settled[d] /\ Others(r, d) = {})]
                  ELSE IF q \in Others(r, d)
                  THEN [run[q] EXCEPT !.quiet = FALSE, !.repeat = FALSE]
                  ELSE run[q]]
            /\ settled' = [settled EXCEPT ![d] = FALSE]
    /\ response' = Accepted("sync_datasource")
    /\ UNCHANGED <<component, component_group, incident, maintenance_window, external_incident,
                   provider, pd_edited, hung, fnVars>>

\* A variant that records the unknown provider as a failed sync.
SyncFailingUnknown(r, d) ==
    /\ ~hung
    /\ run[r].pc \in {"idle", "done"}
    /\ now < MaxTime
    /\ now' = now + 1
    /\ IF datasource[d].provider_type # "pagerduty"
       THEN \* datasources.py 282
            /\ run' = [run EXCEPT ![r] =
                  [IdleRun EXCEPT !.pc = "done", !.datasource_id = d,
                        !.result = SyncResult(FALSE, 0, 0, 0, "Unknown provider")]]
            /\ datasource' = [datasource EXCEPT ![d] = ErrorRow(d, "Unknown provider")]
            /\ UNCHANGED settled
       ELSE IF datasource[d].config # "valid"
       THEN \* pagerduty.py 111 / 115 return a dict without "success", which
            \* SyncResult(**result) (datasources.py 280) does not validate.
            /\ run' = [run EXCEPT ![r] =
                  [IdleRun EXCEPT !.pc = "done", !.datasource_id = d,
                        !.result = Unhandled("ValidationError")]]
            /\ UNCHANGED <<datasource, settled>>
       ELSE \* pagerduty.py 121-122, then the await of line 128
            /\ datasource' = [datasource EXCEPT ![d].sync_status = "syncing"]
            /\ run' = [q \in Runs |->
                  IF q = r
                  THEN [IdleRun EXCEPT !.pc = "fetch_active", !.datasource_id = d,
                            !.quiet = (Others(r, d) = {}),
                            !.steady = TRUE,
                            !.repeat = (settled[d] /\ Others(r, d) = {})]
                  ELSE IF q \in Others(r, d)
                  THEN [run[q] EXCEPT !.quiet = FALSE, !.repeat = FALSE]
                  ELSE run[q]]
            /\ settled' = [settled EXCEPT ![d] = FALSE]
    /\ response' = Accepted("sync_datasource")
    /\ UNCHANGED <<component, component_group, incident, maintenance_window, external_incident,
                   provider, pd_edited, hung, fnVars>>

\* The request up to its first await: datasources.py 273-282 and
\* pagerduty.py 105-128.
sync_datasource(r, d) ==
    /\ ~hung
    /\ run[r].pc \in {"idle", "done"}
    /\ now < MaxTime
    /\ now' = now + 1
    /\ IF datasource[d].provider_type # "pagerduty"
       THEN \* datasources.py 282
            /\ run' = [run EXCEPT ![r] =
                  [IdleRun EXCEPT !.pc = "done", !.datasource_id = d,
                        !.result = SyncResult(FALSE, 0, 0, 0, "Unknown provider")]]
            /\ UNCHANGED <<datasource, settled>>
       ELSE IF datasource[d].config # "valid"
       THEN \* pagerduty.py 111 / 115 return a dict without "success", which
            \* SyncResult(**result) (datasources.py 280) does not validate.
            /\ run' = [run EXCEPT ![r] =
                  [IdleRun EXCEPT !.pc = "done", !.datasource_id = d,
                        !.result = Unhandled("ValidationError")]]
            /\ UNCHANGED <<datasource, settled>>
       ELSE \* pagerduty.py 121-122, then the await of line 128
            /\ datasource' = [datasource EXCEPT ![d].sync_status = "syncing"]
            /\ run' = [q \in Runs |->
                  IF q = r
                  THEN [IdleRun EXCEPT !.pc = "fetch_active", !.datasource_id = d,
                            !.quiet = (Others(r, d) = {}),
                            !.steady = TRUE,
                            !.repeat = (settled[d] /\ Others(r, d) = {})]
                  ELSE IF q \in Others(r, d)
                  THEN [run[q] EXCEPT !.quiet = FALSE, !.repeat = FALSE]
                  ELSE run[q]]
            /\ settled' = [settled EXCEPT ![d] = FALSE]
    /\ response' = Accepted("sync_datasource")
    /\ UNCHANGED <<component, component_group, incident, maintenance_window, external_incident,
                   provider, pd_edited, hung, fnVars>>

\* get_incidents of line 128 returns `incidents`: the loop of lines 136-183
\* runs up to the await of line 186.
merge_active(r) ==
    /\ ~hung
    /\ run[r].pc = "fetch_active"
    /\ \E incidents \in get_incidents(run[r].datasource_id, {"triggered", "acknowledged"}) :
       LET d == run[r].datasource_id
           others_ins == UNION {run[q].db.ins : q \in Others(r, d)}
           others_upd == UNION {run[q].db.upd : q \in Others(r, d)}
           m == MergeActive(run[r].db, d, incidents, 1, now, others_ins, others_upd)
       IN  CASE m.outcome = "ok" ->
                    /\ run' = [run EXCEPT ![r].pc = "fetch_resolved", ![r].db = m.db,
                                          ![r].total_fetched = Len(incidents)]
                    /\ UNCHANGED <<dbVars, hung, settled>>
                [] m.outcome = "blocked" ->
                    /\ hung' = TRUE
                    /\ run' = [run EXCEPT ![r].pc = "blocked"]
                    /\ UNCHANGED <<dbVars, settled>>
                [] m.outcome = "integrity_error" ->
                    \* The flush of line 171 failed: the session refuses the
                    \* commit of line 225 and the exception leaves the handler.
                    /\ run' = [run EXCEPT ![r] =
                          Ended(r, Unhandled("PendingRollbackError"), NothingAdded)]
                    /\ settled' = [settled EXCEPT ![d] = FALSE]
                    /\ UNCHANGED <<dbVars, hung>>
                [] m.outcome = "key_error" ->
                    \* Lines 222-226 commit what the records before the
                    \* malformed one left in the session.
                    /\ Commit(r, m.db, TRUE, ErrorRow(d, KeyErrorTitle),
                              SyncResult(FALSE, 0, 0, 0, KeyErrorTitle))
                    /\ UNCHANGED <<component, component_group, maintenance_window>>
    /\ response' = Accepted("sync_datasource")
    /\ UNCHANGED <<provider, pd_edited, now, fnVars>>

\* get_incidents of line 128 raises (non-200 answer, timeout, no connection):
\* lines 222-226.
fetch_active_failed(r) ==
    /\ ~hung
    /\ run[r].pc = "fetch_active"
    /\ Commit(r, run[r].db, TRUE, ErrorRow(run[r].datasource_id, "PagerDuty API error"),
              SyncResult(FALSE, 0, 0, 0, "PagerDuty API error"))
    /\ response' = Accepted("sync_datasource")
    /\ UNCHANGED <<component, component_group, maintenance_window, provider, pd_edited, now, fnVars>>

\* get_incidents of line 186 returns `resolved_incidents`: lines 192-220.
merge_resolved(r) ==
    /\ ~hung
    /\ run[r].pc = "fetch_resolved"
    /\ \E resolved_incidents \in get_incidents(run[r].datasource_id, {"resolved"}) :
       LET d == run[r].datasource_id
           db == MergeResolved(run[r].db, d, resolved_incidents, 1, now)
       IN  Commit(r, db, FALSE, SuccessRow(d),
                     SyncResult(TRUE, db.created, db.updated,
                                run[r].total_fetched + Len(resolved_incidents), None))
    /\ response' = Accepted("sync_datasource")
    /\ UNCHANGED <<component, component_group, maintenance_window, provider, pd_edited, now, fnVars>>

\* get_incidents of line 186 raises: lines 222-226 commit what the loop over
\* the active records left in the session.
fetch_resolved_failed(r) ==
    /\ ~hung
    /\ run[r].pc = "fetch_resolved"
    /\ Commit(r, run[r].db, TRUE, ErrorRow(run[r].datasource_id, "PagerDuty API error"),
              SyncResult(FALSE, 0, 0, 0, "PagerDuty API error"))
    /\ response' = Accepted("sync_datasource")
    /\ UNCHANGED <<component, component_group, maintenance_window, provider, pd_edited, now, fnVars>>

\* PagerDuty, outside the program: the title and the urgency of an incident
\* it holds are changed.
ProviderEdit(d, e) ==
    /\ provider[d][e] # "absent"
    /\ <<d, e>> \notin pd_edited
    /\ pd_edited' = pd_edited \cup {<<d, e>>}
    /\ settled' = [settled EXCEPT ![d] = FALSE]
    /\ run' = [q \in Runs |->
          IF InFlight(q) /\ run[q].datasource_id = d
          THEN [run[q] EXCEPT !.quiet = FALSE, !.steady = FALSE, !.repeat = FALSE]
          ELSE run[q]]
    /\ UNCHANGED <<dbVars, provider, hung, now, response, fnVars>>

\* update_datasource (datasources.py 163-208).  enabled is <<>> when the
\* request leaves it unset; api_key is None when unset, and may be the empty
\* string (DatasourceUpdate, 53-59, sets no minimum length), which the
\* handler stores as it is.
update_datasource(d, enabled, api_key) ==
    /\ ~hung
    /\ datasource' = [datasource EXCEPT
          ![d].enabled = IF enabled # <<>> THEN enabled[1] ELSE @,
          ![d].config = IF api_key = None THEN @
                        ELSE IF api_key = "" THEN "no_api_key" ELSE "valid"]
    /\ response' = Accepted("update_datasource")
    /\ UNCHANGED <<component, component_group, incident, maintenance_window, external_incident,
                   provider, pd_edited, run, hung, settled, now, fnVars>>

\* PagerDuty, outside the program: an incident is triggered, acknowledged,
\* falls back to triggered, or is resolved.
ProviderNext(st) ==
    CASE st = "absent" -> {"triggered"}
      [] st = "triggered" -> {"acknowledged", "resolved"}
      [] st = "acknowledged" -> {"triggered", "resolved"}
      [] st = "resolved" -> {}

ProviderChange(d, e, st) ==
    /\ st \in ProviderNext(provider[d][e])
    /\ provider' = [provider EXCEPT ![d][e] = st]
    /\ settled' = [settled EXCEPT ![d] = FALSE]
    /\ run' = [q \in Runs |->
          IF InFlight(q) /\ run[q].datasource_id = d
          THEN [run[q] EXCEPT !.quiet = FALSE, !.steady = FALSE, !.repeat = FALSE]
          ELSE run[q]]
    /\ UNCHANGED <<dbVars, pd_edited, hung, now, response, fnVars>>

(***************************************************************************)
(* The server after start-up: the catalog and the datasources configured,  *)
(* no incident, no window, nothing synced yet.                             *)
(***************************************************************************)
\* create_datasource (datasources.py 119-147) leaves a datasource disabled
\* and idle; d1 has been enabled since, d2 not.
DatasourceRows ==
    [d \in Datasources |->
        [provider_type |-> "pagerduty", enabled |-> (d = "d1"), config |-> "valid",
         sync_status |-> "idle", last_sync_at |-> NoTime, sync_error |-> None]]

\* The clock starts later than the provider's timestamps T0 and T1.
StartTime == fromisoformat("T1") + 1

NothingAtProvider == [d \in Datasources |-> [e \in ExtIds |-> "absent"]]

Started ==
    /\ incident = <<>>
    /\ maintenance_window = <<>>
    /\ datasource = DatasourceRows
    /\ external_incident = <<>>
    /\ run = [r \in Runs |-> IdleRun]
    /\ hung = FALSE
    /\ settled = [d \in Datasources |-> FALSE]
    /\ now = StartTime
    /\ response = Accepted("startup")

\* The arguments of the two aggregation functions before they are called.
CsIdle ==
    /\ cs_component_id = "c1"
    /\ cs_active_incidents = <<>>
    /\ cs_active_maintenance = <<>>
    /\ cs_result = "pending"

GsIdle == gs_groups = <<>> /\ gs_result = "pending"

NotMapped == [status |-> "pending", severity |-> "pending"]

MapIdle ==
    /\ pd_record = [status |-> "triggered", urgency |-> "high"]
    /\ pd_mapped = NotMapped

vars == <<sysVars, csVars, gsVars>>

(***************************************************************************)
(* compute_component_status on its own: every argument up to the bounds.   *)
(***************************************************************************)
IncidentComponentRows == [component_id : Comps, impact : Impact]

\* incident.incident_components: primary key (incident_id, component_id).
IncidentComponentLists ==
    {s \in SeqsUpTo(IncidentComponentRows, Cardinality(Comps)) :
        \A i, j \in 1..Len(s) : s[i].component_id = s[j].component_id => i = j}

\* window.maintenance_components: primary key (maintenance_id, component_id).
MaintenanceComponentLists ==
    {[k \in 1..Len(s) |-> [component_id |-> s[k]]] : s \in DistinctSeqs(Comps)}

InitComponentStatus ==
    /\ component = DefaultCatalog
    /\ component_group = GroupOrder
    /\ provider = NothingAtProvider
    /\ Started
    /\ pd_edited = {}
    /\ GsIdle
    /\ MapIdle
    /\ cs_component_id \in Comps
    /\ cs_active_incidents \in SeqsUpTo(IncidentComponentLists, MaxCsIncidents)
    /\ cs_active_maintenance \in SeqsUpTo(MaintenanceComponentLists, MaxCsMaintenance)
    /\ cs_result = "pending"

CallComponentStatus ==
    /\ cs_result = "pending"
    /\ cs_result' = compute_component_status(cs_component_id, cs_active_incidents,
                                             cs_active_maintenance)
    /\ UNCHANGED <<sysVars, gsVars, mapVars, cs_component_id, cs_active_incidents,
                   cs_active_maintenance>>

NextComponentStatus == CallComponentStatus

SpecComponentStatus == InitComponentStatus /\ [][NextComponentStatus]_vars

(***************************************************************************)
(* compute_global_status on its own: the groups are built up component by  *)
(* component, then the function is called.                                 *)
(***************************************************************************)
ComponentStatusInfos == [status : ComponentStatus, tier : Tiers]

InitGlobalStatus ==
    /\ component = DefaultCatalog
    /\ component_group = GroupOrder
    /\ provider = NothingAtProvider
    /\ Started
    /\ pd_edited = {}
    /\ CsIdle
    /\ GsIdle
    /\ MapIdle

GsTotal(groups) == Len(FlattenGroups(groups))

AddGroup ==
    /\ gs_result = "pending"
    /\ GsTotal(gs_groups) < MaxGsComponents
    /\ \E c \in ComponentStatusInfos :
          gs_groups' = Append(gs_groups, [components |-> <<c>>])
    /\ UNCHANGED <<sysVars, csVars, mapVars, gs_result>>

AddComponent ==
    /\ gs_result = "pending"
    /\ gs_groups # <<>>
    /\ GsTotal(gs_groups) < MaxGsComponents
    /\ \E c \in ComponentStatusInfos :
          gs_groups' = [gs_groups EXCEPT ![Len(gs_groups)].components = Append(@, c)]
    /\ UNCHANGED <<sysVars, csVars, mapVars, gs_result>>

CallGlobalStatus ==
    /\ gs_result = "pending"
    /\ gs_result' = compute_global_status(gs_groups)
    /\ UNCHANGED <<sysVars, csVars, mapVars, gs_groups>>

NextGlobalStatus == AddGroup \/ AddComponent \/ CallGlobalStatus

SpecGlobalStatus == InitGlobalStatus /\ [][NextGlobalStatus]_vars

(***************************************************************************)
(* map_pd_status and map_pd_severity on their own: the values PagerDuty    *)
(* documents and values it does not.                                       *)
(***************************************************************************)
StatusValues == PdStatus \cup {"suppressed", "Triggered", ""}
UrgencyValues == {"high", "low", "High", "severe", ""}

InitMapping ==
    /\ component = DefaultCatalog
    /\ component_group = GroupOrder
    /\ provider = NothingAtProvider
    /\ Started
    /\ pd_edited = {}
    /\ CsIdle
    /\ GsIdle
    /\ pd_record \in [status : StatusValues, urgency : UrgencyValues]
    /\ pd_mapped = NotMapped

CallMapStatus ==
    /\ pd_mapped.status = "pending"
    /\ pd_mapped' = [pd_mapped EXCEPT !.status = map_pd_status(pd_record.status)]
    /\ UNCHANGED <<sysVars, csVars, gsVars, pd_record>>

CallMapSeverity ==
    /\ pd_mapped.severity = "pending"
    /\ pd_mapped' = [pd_mapped EXCEPT !.severity = map_pd_severity(pd_record.urgency)]
    /\ UNCHANGED <<sysVars, csVars, gsVars, pd_record>>

NextMapping == CallMapStatus \/ CallMapSeverity

SpecMapping == InitMapping /\ [][NextMapping]_vars

(***************************************************************************)
(* The status page: the incident and maintenance handlers, the overview,   *)
(* and one sync request at a time for the incident P1 of datasource d1.    *)
(***************************************************************************)
\* The requests the status page is driven with.
IncidentComponentInputs ==
    {<<[component_id |-> "c1", impact |-> "degraded"]>>,
     <<[component_id |-> "c1", impact |-> "outage"]>>,
     <<[component_id |-> "c1", impact |-> "degraded"],
       [component_id |-> "c2", impact |-> "outage"]>>}

UpdateStatusInputs == {None, "identified", "resolved"}

MaintenanceComponentInputs ==
    {<<[component_id |-> "c1"]>>,
     <<[component_id |-> "c1"], [component_id |-> "c2"]>>}

\* PagerDuty holds the open incident P1 for d1 when the server starts.
InitStatusPage ==
    /\ component = DefaultCatalog
    /\ component_group = GroupOrder
    /\ provider = [NothingAtProvider EXCEPT !["d1"]["P1"] = "triggered"]
    /\ Started
    /\ pd_edited = {}
    /\ CsIdle
    /\ GsIdle
    /\ MapIdle

NextStatusPage ==
    \/ \E components \in IncidentComponentInputs : create_incident(components)
    \/ \E i \in DOMAIN incident, s \in UpdateStatusInputs :
          add_incident_update(i, s)
    \/ \E i \in DOMAIN incident : resolve_incident(i)
    \/ \E s, e \in MaintenanceTimes,
          components \in MaintenanceComponentInputs :
          create_maintenance(s, e, components)
    \/ \E m \in DOMAIN maintenance_window :
          start_maintenance(m)
    \/ \E m \in DOMAIN maintenance_window :
          complete_maintenance(m)
    \/ \E m \in DOMAIN maintenance_window :
          cancel_maintenance(m)
    \/ get_status_overview
    \/ sync_datasource("r1", "d1")
    \/ merge_active("r1")
    \/ fetch_active_failed("r1")
    \/ merge_resolved("r1")
    \/ fetch_resolved_failed("r1")
    \/ ProviderChange("d1", "P1", "resolved")

SpecStatusPage == InitStatusPage /\ [][NextStatusPage]_vars

(***************************************************************************)
(* Reconciliation: two sync requests at a time, over both datasources,     *)
(* while the provider's incidents change.                                  *)
(***************************************************************************)
\* The incidents PagerDuty may come to hold for each datasource.
ProviderIds(d) == IF d = "d1" THEN {"P1", "P2"} ELSE {"P1"}

InitSync ==
    /\ component = DefaultCatalog
    /\ component_group = GroupOrder
    /\ provider = NothingAtProvider
    /\ Started
    /\ pd_edited = {}
    /\ CsIdle
    /\ GsIdle
    /\ MapIdle

NextSync ==
    \/ \E r \in Pair, d \in Datasources : sync_datasource(r, d)
    \/ \E r \in Runs : merge_active(r)
    \/ \E r \in Runs : fetch_active_failed(r)
    \/ \E r \in Runs : merge_resolved(r)
    \/ \E r \in Runs : fetch_resolved_failed(r)
    \/ \E d \in Datasources : \E e \in ProviderIds(d), st \in PdStatus :
          ProviderChange(d, e, st)

SpecSync == InitSync /\ [][NextSync]_vars

(***************************************************************************)
(* Batches: one sync request at a time for d1, whose incidents include one *)
(* that PagerDuty returns without a title.                                 *)
(***************************************************************************)
InitBatch ==
    /\ component = DefaultCatalog
    /\ component_group = GroupOrder
    /\ provider = NothingAtProvider
    /\ Started
    /\ pd_edited = {}
    /\ CsIdle
    /\ GsIdle
    /\ MapIdle

NextBatch ==
    \/ sync_datasource("r1", "d1")
    \/ merge_active("r1")
    \/ fetch_active_failed("r1")
    \/ merge_resolved("r1")
    \/ fetch_resolved_failed("r1")
    \/ \E e \in ExtIds, st \in PdStatus : ProviderChange("d1", e, st)

SpecBatch == InitBatch /\ [][NextBatch]_vars

(***************************************************************************)
(* Progress: two sync requests at a time for d1 while PagerDuty holds two  *)
(* open incidents.  A request suspended at get_incidents is resumed: the   *)
(* call returns or raises within the timeout of the HTTP client            *)
(* (pagerduty.py 71), and the event loop, unless it is stuck, runs the     *)
(* coroutine on.                                                           *)
(***************************************************************************)
InitProgress ==
    /\ component = DefaultCatalog
    /\ component_group = GroupOrder
    /\ provider = [NothingAtProvider EXCEPT
                      !["d1"]["P1"] = "triggered", !["d1"]["P2"] = "acknowledged"]
    /\ Started
    /\ pd_edited = {}
    /\ CsIdle
    /\ GsIdle
    /\ MapIdle

\* The first / second get_incidents of the run r returns or raises.
FirstFetchEnds(r) == merge_active(r) \/ fetch_active_failed(r)
SecondFetchEnds(r) == merge_resolved(r) \/ fetch_resolved_failed(r)

NextProgress ==
    \/ \E r \in Pair : sync_datasource(r, "d1")
    \/ \E r \in Runs : merge_active(r)
    \/ \E r \in Runs : fetch_active_failed(r)
    \/ \E r \in Runs : merge_resolved(r)
    \/ \E r \in Runs : fetch_resolved_failed(r)

SpecProgress ==
    /\ InitProgress
    /\ [][NextProgress]_vars
    /\ \A r \in Runs : WF_vars(FirstFetchEnds(r)) /\ WF_vars(SecondFetchEnds(r))

(***************************************************************************)
(* Linked incidents: two sync requests at a time for d2 while its incident *)
(* P1 changes status, title and urgency at PagerDuty.  An earlier sync, at *)
(* the time SyncedBefore, has made the canonical incident of P1.           *)
(***************************************************************************)
SyncedBefore == StartTime - 1

InitLinked ==
    /\ component = DefaultCatalog
    /\ component_group = GroupOrder
    /\ provider = [NothingAtProvider EXCEPT !["d2"]["P1"] = "triggered"]
    /\ pd_edited = {}
    /\ incident = <<[title |-> "title", status |-> "investigating",
                     severity |-> "critical", started_at |-> fromisoformat("T0"),
                     resolved_at |-> NoTime, source |-> "pagerduty",
                     origin |-> <<"d2", "P1">>, incident_components |-> <<>>,
                     updates |-> <<>>]>>
    /\ external_incident = <<[datasource_id |-> "d2", external_id |-> "P1",
                              incident_id |-> 1,
                              raw_data |-> <<"triggered", "title", "high">>,
                              synced_at |-> SyncedBefore]>>
    /\ datasource = [DatasourceRows EXCEPT
                        !["d2"].sync_status = "success",
                        !["d2"].last_sync_at = At(SyncedBefore)]
    /\ maintenance_window = <<>>
    /\ run = [r \in Runs |-> IdleRun]
    /\ hung = FALSE
    /\ settled = [d \in Datasources |-> FALSE]
    /\ now = StartTime
    /\ response = Accepted("sync_datasource")
    /\ CsIdle
    /\ GsIdle
    /\ MapIdle

NextLinked ==
    \/ \E r \in Pair : sync_datasource(r, "d2")
    \/ \E r \in Runs : merge_active(r)
    \/ \E r \in Runs : fetch_active_failed(r)
    \/ \E r \in Runs : merge_resolved(r)
    \/ \E r \in Runs : fetch_resolved_failed(r)
    \/ \E st \in PdStatus : ProviderChange("d2", "P1", st)
    \/ ProviderEdit("d2", "P1")

SpecLinked == InitLinked /\ [][NextLinked]_vars

(***************************************************************************)
(* Administration: the datasource d1 is reconfigured between its sync      *)
(* requests, one request at a time.                                        *)
(***************************************************************************)
EnabledInputs == {<<>>, <<TRUE>>, <<FALSE>>}
ApiKeyInputs == {None, "", "key"}

InitAdmin ==
    /\ component = DefaultCatalog
    /\ component_group = GroupOrder
    /\ provider = NothingAtProvider
    /\ Started
    /\ pd_edited = {}
    /\ CsIdle
    /\ GsIdle
    /\ MapIdle

NextAdmin ==
    \/ \E enabled \in EnabledInputs, api_key \in ApiKeyInputs :
          update_datasource("d1", enabled, api_key)
    \/ sync_datasource("r1", "d1")
    \/ merge_active("r1")
    \/ fetch_active_failed("r1")
    \/ merge_resolved("r1")
    \/ fetch_resolved_failed("r1")
    \/ \E st \in PdStatus : ProviderChange("d1", "P1", st)

SpecAdmin == InitAdmin /\ [][NextAdmin]_vars

(***************************************************************************)
(* The catalog: components created without a group and inactive, then      *)
(* groups are created and components regrouped, activated and deactivated  *)
(* while incidents are opened and the overview is read.                    *)
(***************************************************************************)
\* create_component (144-163) with group_id null, is_active false.
NewCatalog ==
    [c \in Comps |-> [tier |-> IF c = "c1" THEN 1 ELSE MaxTier,
                      is_active |-> FALSE, group_id |-> None]]

GroupIdInputs == {Unset, None} \cup Groups
IsActiveInputs == {<<>>, <<TRUE>>, <<FALSE>>}

InitCatalog ==
    /\ component = NewCatalog
    /\ component_group = <<>>
    /\ provider = NothingAtProvider
    /\ Started
    /\ pd_edited = {}
    /\ CsIdle
    /\ GsIdle
    /\ MapIdle

NextCatalog ==
    \/ \E g \in Groups : create_group(g)
    \/ \E c \in Comps, group_id \in GroupIdInputs, is_active \in IsActiveInputs :
          update_component(c, group_id, is_active)
    \/ \E components \in IncidentComponentInputs : create_incident(components)
    \/ \E i \in DOMAIN incident : resolve_incident(i)
    \/ get_status_overview

SpecCatalog == InitCatalog /\ [][NextCatalog]_vars

(***************************************************************************)
(* Properties of compute_component_status                                  *)
(***************************************************************************)
\* Some incident of the list links the component with the impact.
Linked(component_id, active_incidents, impact) ==
    \E i \in 1..Len(active_incidents) :
        \E k \in 1..Len(active_incidents[i]) :
            /\ active_incidents[i][k].component_id = component_id
            /\ active_incidents[i][k].impact = impact

\* Some window of the list touches the component.
Touched(component_id, active_maintenance) ==
    \E m \in 1..Len(active_maintenance) :
        \E k \in 1..Len(active_maintenance[m]) :
            active_maintenance[m][k].component_id = component_id

\* C1: compute_component_status returns major_outage whenever some unresolved
\* incident links the component with impact outage, whatever the other links,
\* the maintenance and the order of the incidents and links.
C1_OutageDominates ==
    (cs_result # "pending" /\ Linked(cs_component_id, cs_active_incidents, "outage"))
        => cs_result = "major_outage"

\* C5: with no outage link and at least one degraded link from the unresolved
\* incidents, compute_component_status returns degraded, also when an
\* in-progress window touches the component.
C5_DegradedWithoutOutage ==
    (/\ cs_result # "pending"
     /\ ~Linked(cs_component_id, cs_active_incidents, "outage")
     /\ Linked(cs_component_id, cs_active_incidents, "degraded"))
        => cs_result = "degraded"

C5_Witness ==
    /\ cs_result = "degraded"
    /\ ~Linked(cs_component_id, cs_active_incidents, "outage")
    /\ Linked(cs_component_id, cs_active_incidents, "degraded")
    /\ Touched(cs_component_id, cs_active_maintenance)

(***************************************************************************)
(* Properties of compute_global_status                                     *)
(***************************************************************************)
GsComponents == FlattenGroups(gs_groups)

\* Some component in major outage has its tier in T.
MajorOutageIn(T) ==
    \E k \in 1..Len(GsComponents) :
        GsComponents[k].status = "major_outage" /\ GsComponents[k].tier \in T

GsHas(status) == \E k \in 1..Len(GsComponents) : GsComponents[k].status = status

\* C2: compute_global_status returns major_outage whenever a component of tier
\* 0 or 1 is in major outage, whatever the other components and wherever that
\* component stands in the lists.
C2_CriticalOutageIsGlobal ==
    (gs_result # "pending" /\ MajorOutageIn({0, 1})) => gs_result = "major_outage"

\* The tier-1 outage comes last, after a tier-3 outage and in a second group.
C2_Witness ==
    /\ gs_result = "major_outage"
    /\ Len(gs_groups) >= 2
    /\ GsComponents[1] = [status |-> "major_outage", tier |-> 3]
    /\ GsComponents[Len(GsComponents)] = [status |-> "major_outage", tier |-> 1]
    /\ ~MajorOutageIn({0})

\* C3: with no tier-0 or tier-1 component in major outage and some component
\* of tier 2 or 3 in major outage, compute_global_status returns
\* partial_outage (and so never major_outage).
C3_LowTierOutageIsPartial ==
    (gs_result # "pending" /\ ~MajorOutageIn({0, 1}) /\ MajorOutageIn({2, 3}))
        => gs_result = "partial_outage"

C3_Witness ==
    /\ gs_result = "partial_outage"
    /\ MajorOutageIn({3})
    /\ ~MajorOutageIn({0, 1, 2})
    /\ GsHas("degraded")

\* C4: with no component in major outage, compute_global_status returns
\* degraded if some component is degraded or in partial outage and operational
\* otherwise (components in maintenance alone, or no component at all, give
\* operational).
C4_NoOutage ==
    (gs_result # "pending" /\ ~GsHas("major_outage"))
        => gs_result = IF GsHas("degraded") \/ GsHas("partial_outage")
                       THEN "degraded" ELSE "operational"

\* A partial outage next to a maintenance, nothing degraded.
C4_Witness ==
    /\ gs_result = "degraded"
    /\ GsHas("partial_outage")
    /\ GsHas("maintenance")
    /\ ~GsHas("degraded")
    /\ ~GsHas("major_outage")

(***************************************************************************)
(* Properties of the status overview                                       *)
(***************************************************************************)
\* The last request was a status overview, and it was answered.
Overview == response.op = "get_status_overview" /\ ~response.rejected

\* The ComponentStatusInfo entries of the overview.
ShownInfos ==
    UNION {{response.groups[g].components[k] :
               k \in DOMAIN response.groups[g].components} :
           g \in DOMAIN response.groups}

\* The incident i links the component with the impact.
IncidentLinks(i, component_id, impact) ==
    \E k \in 1..Len(incident[i].incident_components) :
        /\ incident[i].incident_components[k].component_id = component_id
        /\ incident[i].incident_components[k].impact = impact

\* An incident that is not resolved links the component with the impact.
UnresolvedLink(component_id, impact) ==
    \E i \in DOMAIN incident :
        incident[i].status # "resolved" /\ IncidentLinks(i, component_id, impact)

\* The window m is linked to the component.
WindowLinks(m, component_id) ==
    \E k \in 1..Len(maintenance_window[m].maintenance_components) :
        maintenance_window[m].maintenance_components[k].component_id = component_id

\* A window in progress is linked to the component.
InProgressLink(component_id) ==
    \E m \in DOMAIN maintenance_window :
        maintenance_window[m].status = "in_progress" /\ WindowLinks(m, component_id)

\* C6: a component with no link from an unresolved incident is shown in
\* maintenance exactly when a window whose status is in_progress is linked to
\* it, and operational otherwise: scheduled, completed and canceled windows
\* never show as maintenance.
C6_MaintenanceOnlyInProgress ==
    Overview =>
        \A info \in ShownInfos :
            (\A impact \in Impact : ~UnresolvedLink(info.id, impact))
                => info.status = IF InProgressLink(info.id)
                                 THEN "maintenance" ELSE "operational"

\* The window linked to c1 has been completed and c1 shows operational again.
C6_Witness ==
    /\ Overview
    /\ \E m \in DOMAIN maintenance_window :
          maintenance_window[m].status = "completed" /\ WindowLinks(m, "c1")
    /\ \A impact \in Impact : ~UnresolvedLink("c1", impact)
    /\ \E info \in ShownInfos : info.id = "c1" /\ info.status = "operational"

\* C7: only the links of incidents that are not resolved contribute: a
\* component shown in major outage (degraded) has an outage (degraded) link
\* from an incident that is not resolved, so an incident, once resolved, no
\* longer shows in the next overview.
C7_OnlyUnresolvedContribute ==
    Overview =>
        \A info \in ShownInfos :
            /\ info.status = "major_outage" => UnresolvedLink(info.id, "outage")
            /\ info.status = "degraded" => UnresolvedLink(info.id, "degraded")

\* An incident with an outage link to c1 has been resolved by resolve_incident
\* and c1 shows operational.
C7_Witness ==
    /\ Overview
    /\ \E i \in DOMAIN incident :
          /\ incident[i].status = "resolved"
          /\ incident[i].resolved_at # NoTime
          /\ IncidentLinks(i, "c1", "outage")
    /\ \E info \in ShownInfos : info.id = "c1" /\ info.status = "operational"

\* The precedence of the aggregation rules for one component on the current
\* incidents and windows: outage, then degraded, then maintenance.
RuleComponentStatus(component_id) ==
    IF UnresolvedLink(component_id, "outage") THEN "major_outage"
    ELSE IF UnresolvedLink(component_id, "degraded") THEN "degraded"
    ELSE IF InProgressLink(component_id) THEN "maintenance"
    ELSE "operational"

\* The groups of the overview with the statuses the rules give.
RuleGroups ==
    [g \in DOMAIN response.groups |->
        [components |->
            [k \in DOMAIN response.groups[g].components |->
                [status |-> RuleComponentStatus(response.groups[g].components[k].id),
                 tier |-> response.groups[g].components[k].tier]]]]

\* C8: every status overview equals the aggregation rules applied to the
\* incidents and windows as they are at the time of the call.
C8_OverviewIsTheRules ==
    Overview =>
        /\ \A info \in ShownInfos : info.status = RuleComponentStatus(info.id)
        /\ response.global_status = compute_global_status(RuleGroups)

(***************************************************************************)
(* Properties of the reconciliation                                        *)
(***************************************************************************)
\* C9: a run that follows a successful run for the same datasource, with no
\* other run for it in between or at the same time and with the provider's
\* incidents unchanged since the first run started, returns created = 0 and
\* adds no incident and no link.
C9_SecondRunCreatesNothing ==
    \A r \in Runs :
        (run[r].pc = "done" /\ run[r].repeat)
            => /\ run[r].result.created = 0
               /\ run[r].added.incidents = 0
               /\ run[r].added.links = 0

\* The second run succeeded and found the incidents the first one created.
C9_Witness ==
    \E r \in Runs :
        /\ run[r].pc = "done"
        /\ run[r].repeat
        /\ run[r].result.success
        /\ run[r].result.updated = 2
        /\ Len(incident) = 2

\* C10: in every state there is at most one link per (datasource_id,
\* external_id) and at most one incident made from a given external incident
\* of a given datasource, also when runs for the same datasource overlap.
C10_OneLinkOneIncident ==
    /\ \A j, k \in DOMAIN external_incident :
          (/\ external_incident[j].datasource_id = external_incident[k].datasource_id
           /\ external_incident[j].external_id = external_incident[k].external_id)
              => j = k
    /\ \A i, j \in DOMAIN incident :
          (incident[i].origin # <<>> /\ incident[i].origin = incident[j].origin)
              => i = j

\* Two overlapping runs both made an incident for the same external incident:
\* one committed, the other met the index and was rolled back.
C10_Witness ==
    /\ Len(external_incident) = 1
    /\ \E r \in Runs :
          /\ run[r].pc = "done"
          /\ run[r].result.error = "IntegrityError"
          /\ ~run[r].result.success

(***************************************************************************)
(* Properties of the sync requests                                         *)
(***************************************************************************)
\* C11: two sync runs for the same datasource are never in progress at the
\* same time.
C11_NoOverlap ==
    \A q, r \in Runs :
        (InFlight(q) /\ InFlight(r) /\ run[q].datasource_id = run[r].datasource_id)
            => q = r

\* C12: an insert of a link that loses the race for its (datasource_id,
\* external_id) is retried as an update: no run ends with the uniqueness
\* violation as its failure, and none ends in an unhandled exception for it.
C12_ConflictRetriedAsUpdate ==
    \A r \in Runs :
        run[r].pc = "done"
            => run[r].result.error \notin {"IntegrityError", "PendingRollbackError"}

\* The external ids whose incident PagerDuty holds as resolved for d.
ResolvedAtProvider(d) == {e \in ExtIds : provider[d][e] = "resolved"}

\* The resolved records for which the lookup of lines 194-197 finds a link.
MatchedResolved(r) ==
    {e \in ResolvedAtProvider(run[r].datasource_id) :
        Existing(run[r].db, run[r].datasource_id, e).kind # "none"}

\* The external ids of the incidents the loop over the active records added.
AddedFromActive(r) == {run[r].db.new[k].external_id : k \in DOMAIN run[r].db.new}

\* C13: the step of a run that handles the resolved fetch stores no incident
\* and no link but those the loop over the active records added, and counts a
\* resolved record without a link neither as created nor as updated.
C13_ResolvedOnlyIgnored ==
    [][\A r \in Runs :
          (run[r].pc = "fetch_resolved" /\ run'[r].pc = "done")
              => /\ \A k \in (Len(external_incident) + 1)..Len(external_incident') :
                       external_incident'[k].external_id \in AddedFromActive(r)
                 /\ \A i \in (Len(incident) + 1)..Len(incident') :
                       /\ incident'[i].origin # <<>>
                       /\ incident'[i].origin[2] \in AddedFromActive(r)
                 /\ run'[r].result.success
                       => /\ run'[r].result.created = run[r].db.created
                          /\ run'[r].result.updated =
                                run[r].db.updated + Cardinality(MatchedResolved(r))
                          /\ Len(incident') = Len(incident) + Len(run[r].db.new)
                          /\ Len(external_incident') =
                                Len(external_incident) + Len(run[r].db.new)]_vars

\* A run has fetched one resolved incident that has no link: nothing is
\* stored and nothing counted.
C13_Witness ==
    \E r \in Runs :
        /\ run[r].pc = "done"
        /\ run[r].result.success
        /\ run[r].result.total_fetched = 1
        /\ run[r].result.created = 0
        /\ run[r].result.updated = 0
        /\ ResolvedAtProvider(run[r].datasource_id) # {}
        /\ incident = <<>>
        /\ external_incident = <<>>

\* C14: a malformed record of a fetched batch is skipped and the run goes on:
\* no run ends in failure on account of a record without a title.
C14_MalformedSkipped ==
    \A r \in Runs :
        run[r].pc = "done" => run[r].result.error # KeyErrorTitle

\* The step in which the run r, after it has started, ends in failure.
EndsInFailure(r) ==
    InFlight(r) /\ run'[r].pc = "done" /\ ~run'[r].result.success

\* C15: when a run fails after the loop over the active records, what that
\* loop created and updated is committed: every incident and link it added is
\* stored, and every link it refreshed carries the payload it was given.
C15_PartialProgressKept ==
    [][\A r \in Runs :
          (run[r].pc = "fetch_resolved" /\ EndsInFailure(r))
              => /\ Len(incident') = Len(incident) + Len(run[r].db.new)
                 /\ Len(external_incident') =
                       Len(external_incident) + Len(run[r].db.new)
                 /\ \A e \in run[r].db.loaded :
                       LET t == run[r].db.touched[e]
                       IN  /\ external_incident'[t.row].raw_data = t.raw_data
                           /\ external_incident'[t.row].synced_at = t.synced_at]_vars

\* C16: every run that ends in failure after it has started leaves the
\* datasource with sync_status error and sync_error the failure message, and
\* does not change last_sync_at.
C16_FailureRecorded ==
    [][\A r \in Runs :
          EndsInFailure(r)
              => LET d == run[r].datasource_id
                 IN  /\ datasource'[d].sync_status = "error"
                     /\ datasource'[d].sync_error = run'[r].result.error
                     /\ datasource'[d].sync_error # None
                     /\ datasource'[d].last_sync_at = datasource[d].last_sync_at]_vars

C18_RefusedAtFirstFetch ==
    [][\A r \in Runs :
          (/\ run[r].pc = "fetch_active"
           /\ run'[r].pc # "fetch_active"
           /\ run'[r].result.error = "PagerDuty API error")
              => /\ run'[r].pc = "done"
                 /\ ~run'[r].result.success
                 /\ run'[r].result.total_fetched = 0
                 /\ incident' = incident
                 /\ external_incident' = external_incident
                 /\ datasource'[run[r].datasource_id].sync_status = "error"]_vars

\* The first fetch of the only run so far was refused while PagerDuty held an
\* open incident: nothing is stored and the datasource shows the error.
C18_Witness ==
    \E r \in Runs :
        /\ run[r].pc = "done"
        /\ run[r].result.error = "PagerDuty API error"
        /\ \A q \in Runs \ {r} : run[q].pc = "idle"
        /\ \E e \in ExtIds : provider[run[r].datasource_id][e] = "triggered"
        /\ datasource[run[r].datasource_id].sync_status = "error"
        /\ datasource[run[r].datasource_id].sync_error = "PagerDuty API error"
        /\ datasource[run[r].datasource_id].last_sync_at = NoTime
        /\ incident = <<>>
        /\ external_incident = <<>>

\* The transitions of sync_status.
SyncStatusTransitions ==
    {<<"idle", "syncing">>, <<"success", "syncing">>, <<"error", "syncing">>,
     <<"syncing", "success">>, <<"syncing", "error">>}

\* C19: sync_status changes along these transitions only, and a run does not
\* enter syncing for a datasource that is syncing already.
C19_SyncStatusTransitions ==
    [][/\ \A d \in Datasources :
             datasource'[d].sync_status # datasource[d].sync_status
                 => <<datasource[d].sync_status, datasource'[d].sync_status>>
                        \in SyncStatusTransitions
       /\ \A r \in Runs :
             (~InFlight(r) /\ run'[r].pc = "fetch_active")
                 => datasource[run'[r].datasource_id].sync_status # "syncing"]_vars

\* C20: a datasource does not stay in sync_status syncing forever: it comes
\* to success or error.
C20_SyncingEnds ==
    \A d \in Datasources :
        (datasource[d].sync_status = "syncing")
            ~> (datasource[d].sync_status \in {"success", "error"})

\* C21: while a run is in its fetch and merge phases (from its first
\* get_incidents to its end), the datasource row reads sync_status syncing.
C21_SyncingWhileRunning ==
    \A r \in Runs :
        InFlight(r) => datasource[run[r].datasource_id].sync_status = "syncing"

\* C22: every sync request for an existing datasource ends in a structured
\* result; none ends in an unhandled exception.
C22_StructuredResult ==
    \A r \in Runs : run[r].pc = "done" => ~run[r].result.raised

\* C23: the status overview returns a result whatever the catalog holds: no
\* group, groups without an active component, active components of no group.
C23_OverviewAlwaysAnswers ==
    response.op = "get_status_overview" => ~response.rejected

\* C24: for every enabled datasource that has never been synced (or whose
\* last sync is an interval old) a sync run is eventually started.
C24_EligibleIsSynced ==
    \A d \in Datasources :
        (datasource[d].enabled /\ datasource[d].last_sync_at = NoTime)
            ~> (\E r \in Runs : run[r].datasource_id = d)

(***************************************************************************)
(* Properties of the provider mappings                                     *)
(***************************************************************************)
\* C25: the mappings are total.  map_pd_status gives investigating for
\* triggered, identified for acknowledged, resolved for resolved and
\* investigating for every other value; map_pd_severity gives critical for
\* the urgency high and major for every other value.
C25_MappingsTotal ==
    /\ pd_mapped.status # "pending" =>
          /\ pd_mapped.status \in IncidentStatus
          /\ pd_record.status = "triggered" => pd_mapped.status = "investigating"
          /\ pd_record.status = "acknowledged" => pd_mapped.status = "identified"
          /\ pd_record.status = "resolved" => pd_mapped.status = "resolved"
          /\ pd_record.status \notin PdStatus => pd_mapped.status = "investigating"
    /\ pd_mapped.severity # "pending" =>
          /\ pd_mapped.severity \in Severity
          /\ pd_record.urgency = "high" => pd_mapped.severity = "critical"
          /\ pd_record.urgency # "high" => pd_mapped.severity = "major"

\* Both functions have been called on values PagerDuty does not document.
C25_Witness ==
    /\ pd_record.status \notin PdStatus
    /\ pd_record.urgency \notin {"high", "low"}
    /\ pd_mapped.status = "investigating"
    /\ pd_mapped.severity = "major"

(***************************************************************************)
(* Properties of the merge                                                 *)
(***************************************************************************)
\* The incidents PagerDuty holds for d, in whatever status.
AtProvider(d) == {e \in ExtIds : provider[d][e] # "absent"}

\* The run r ends in this step with success.
EndsInSuccess(r) == InFlight(r) /\ run'[r].pc = "done" /\ run'[r].result.success

\* C26: an external incident stays bound to the same canonical incident over
\* all runs; a run that finds it resolved with resolved_at = T1, its link
\* already stored, leaves that incident resolved with resolved_at = T1; and a
\* run during which the provider's incidents do not change and which finds
\* only that incident, already linked, reports created = 0 and updated = 1.
C26_ActiveThenResolved ==
    [][/\ \A k \in DOMAIN external_incident :
             /\ k \in DOMAIN external_incident'
             /\ external_incident'[k].datasource_id = external_incident[k].datasource_id
             /\ external_incident'[k].external_id = external_incident[k].external_id
             /\ external_incident'[k].incident_id = external_incident[k].incident_id
       /\ \A r \in Runs :
             EndsInSuccess(r) =>
                LET d == run[r].datasource_id
                IN  /\ \A e \in ResolvedAtProvider(d) :
                          LinkRows(d, e) # {} =>
                             LET i == external_incident[Min(LinkRows(d, e))].incident_id
                             IN  /\ incident'[i].status = "resolved"
                                 /\ incident'[i].resolved_at = At(fromisoformat("T1"))
                    /\ \A e \in ExtIds :
                          (run[r].steady /\ AtProvider(d) = {e} /\ LinkRows(d, e) # {})
                             => /\ run'[r].result.created = 0
                                /\ run'[r].result.updated = 1]_vars

\* A first run made the incident from the open P1 of d2; P1 was resolved; a
\* second run found it and resolved the same incident.
C26_Witness ==
    \E q, r \in Runs :
        /\ run[q].pc = "done" /\ run[q].datasource_id = "d2"
        /\ run[q].result.success /\ run[q].result.created = 1
        /\ run[r].pc = "done" /\ run[r].datasource_id = "d2"
        /\ run[r].result.success
        /\ run[r].result.created = 0 /\ run[r].result.updated = 1
        /\ provider["d2"]["P1"] = "resolved"
        /\ Len(incident) = 1
        /\ incident[1].origin = <<"d2", "P1">>
        /\ incident[1].status = "resolved"
        /\ incident[1].resolved_at = At(fromisoformat("T1"))
        /\ LinkRows("d2", "P1") = {1}
        /\ external_incident[1].incident_id = 1

\* C27: a successful run returns as created the number of incidents, and of
\* links, it has added; every incident it adds has the source pagerduty and
\* exactly one link, added by the same run; and a run during which the
\* provider's incidents do not change adds exactly one link, to an incident
\* made from that record, for every open record that had no link.
C27_CreatedForUnlinked ==
    [][\A r \in Runs :
          EndsInSuccess(r) =>
             LET d == run[r].datasource_id
                 new_incidents == (DOMAIN incident') \ (DOMAIN incident)
                 new_links == (DOMAIN external_incident') \ (DOMAIN external_incident)
                 links_of(i) == {k \in DOMAIN external_incident' :
                                    external_incident'[k].incident_id = i}
             IN  /\ run'[r].result.created = Cardinality(new_incidents)
                 /\ run'[r].result.created = Cardinality(new_links)
                 /\ \A i \in new_incidents :
                       /\ incident'[i].source = "pagerduty"
                       /\ Cardinality(links_of(i)) = 1
                       /\ links_of(i) \subseteq new_links
                 /\ \A k \in new_links :
                       /\ external_incident'[k].datasource_id = d
                       /\ external_incident'[k].incident_id \in new_incidents
                 /\ run[r].steady =>
                       \A e \in ExtIds :
                          (provider[d][e] \in {"triggered", "acknowledged"}
                             /\ LinkRows(d, e) = {})
                          => \E k \in new_links :
                                /\ external_incident'[k].external_id = e
                                /\ incident'[external_incident'[k].incident_id].origin
                                      = <<d, e>>
                                /\ \A j \in DOMAIN external_incident' :
                                      (external_incident'[j].datasource_id = d
                                         /\ external_incident'[j].external_id = e)
                                      => j = k]_vars

\* A run of d1 has made the incidents of the two open records P1 and P2.
C27_Witness ==
    \E r \in Runs :
        /\ run[r].pc = "done" /\ run[r].datasource_id = "d1"
        /\ run[r].result.success /\ run[r].result.created = 2
        /\ Len(incident) = 2 /\ Len(external_incident) = 2
        /\ \A i \in {1, 2} : incident[i].source = "pagerduty"
        /\ {external_incident[k].external_id : k \in {1, 2}} = {"P1", "P2"}
        /\ {external_incident[k].incident_id : k \in {1, 2}} = {1, 2}

\* C28: a run that ends with success, the provider's incidents unchanged
\* while it ran, leaves for every open record whose link is stored the incident
\* with the record's title, the severity of its urgency and the status of its
\* status, and the link with the record as raw payload (and, when no other
\* request was served meanwhile, the time of the run as synced_at); it adds
\* no incident and no link for the record and counts it as updated.
C28_LinkedIsUpdated ==
    [][\A r \in Runs, e \in ExtIds :
          LET d == run[r].datasource_id
          IN  (/\ EndsInSuccess(r)
               /\ run[r].steady
               /\ provider[d][e] \in {"triggered", "acknowledged"}
               /\ LinkRows(d, e) # {})
              => LET k == Min(LinkRows(d, e))
                     i == external_incident[k].incident_id
                     rec == PdIncident(d, e, provider[d][e])
                 IN  /\ incident'[i].title = rec.title
                     /\ incident'[i].severity =
                           (IF rec.urgency = "high" THEN "critical" ELSE "major")
                     /\ incident'[i].status =
                           (IF rec.status = "triggered" THEN "investigating"
                            ELSE "identified")
                     /\ external_incident'[k].raw_data = RawData(rec)
                     /\ run[r].quiet => external_incident'[k].synced_at = now
                     /\ external_incident'[k].incident_id = i
                     /\ \A j \in DOMAIN external_incident' :
                           (external_incident'[j].datasource_id = d
                              /\ external_incident'[j].external_id = e) => j = k
                     /\ run'[r].result.updated >= 1
                     /\ AtProvider(d) = {e} =>
                           /\ Len(incident') = Len(incident)
                           /\ Len(external_incident') = Len(external_incident)
                           /\ run'[r].result.created = 0
                           /\ run'[r].result.updated = 1]_vars

(***************************************************************************)
(* Isolation: a sync request for d2 is suspended at its first get_incidents *)
(* (pagerduty.py 128) while two requests at a time are served for d1,      *)
(* whose PagerDuty account holds two open incidents.  Requests suspended   *)
(* at get_incidents are resumed as in SpecProgress.                        *)
(***************************************************************************)
InitIsolation ==
    /\ component = DefaultCatalog
    /\ component_group = GroupOrder
    /\ provider = [NothingAtProvider EXCEPT
                      !["d1"]["P1"] = "triggered", !["d1"]["P2"] = "acknowledged",
                      !["d2"]["P1"] = "triggered"]
    /\ pd_edited = {}
    /\ incident = <<>>
    /\ maintenance_window = <<>>
    /\ external_incident = <<>>
    /\ datasource = [DatasourceRows EXCEPT !["d2"].sync_status = "syncing"]
    /\ run = [r \in Runs |->
                IF r = "r3"
                THEN [IdleRun EXCEPT !.pc = "fetch_active", !.datasource_id = "d2",
                          !.quiet = TRUE, !.steady = TRUE]
                ELSE IdleRun]
    /\ hung = FALSE
    /\ settled = [d \in Datasources |-> FALSE]
    /\ now = StartTime
    /\ response = Accepted("sync_datasource")
    /\ CsIdle
    /\ GsIdle
    /\ MapIdle

NextIsolation ==
    \/ \E r \in Pair : sync_datasource(r, "d1")
    \/ \E r \in Runs : merge_active(r)
    \/ \E r \in Runs : fetch_active_failed(r)
    \/ \E r \in Runs : merge_resolved(r)
    \/ \E r \in Runs : fetch_resolved_failed(r)

SpecIsolation ==
    /\ InitIsolation
    /\ [][NextIsolation]_vars
    /\ \A r \in Runs : WF_vars(FirstFetchEnds(r)) /\ WF_vars(SecondFetchEnds(r))

\* The links of the datasource d.
LinksOf(ext, d) == {ext[k] : k \in {j \in DOMAIN ext : ext[j].datasource_id = d}}

\* A step of a sync run for one datasource leaves the row and the links of
\* every other datasource as they were.
OtherRowsUntouched ==
    [][\A r \in Runs :
            run'[r].pc # run[r].pc =>
                \A o \in Datasources \ {run'[r].datasource_id} :
                    /\ datasource'[o] = datasource[o]
                    /\ LinksOf(external_incident', o) = LinksOf(external_incident, o)]_vars

\* C29: a step of a sync run for one datasource, whether the run succeeds,
\* fails or times out, leaves the row (sync_status, last_sync_at,
\* sync_error) and the external incident links of every other datasource as
\* they were, and a run for another datasource that has started completes
\* whatever the runs for the first datasource do.
C29_RunsAreIsolated ==
    /\ OtherRowsUntouched
    /\ \A r \in Runs :
          (InFlight(r) /\ run[r].datasource_id = "d2") ~> (run[r].pc = "done")

(***************************************************************************)
(* Maintenance: windows are created, rescheduled and taken through their   *)
(* statuses.                                                               *)
(***************************************************************************)
\* The start_at / end_at fields of a MaintenanceUpdate (schemas.py 219-224):
\* unset, or one of the request times.
MaintenanceUpdateTimes == {NoTime} \cup {<<t>> : t \in MaintenanceTimes}

InitMaintenance ==
    /\ component = DefaultCatalog
    /\ component_group = GroupOrder
    /\ provider = NothingAtProvider
    /\ Started
    /\ pd_edited = {}
    /\ CsIdle
    /\ GsIdle
    /\ MapIdle

NextMaintenance ==
    \/ \E s, e \in MaintenanceTimes,
          components \in MaintenanceComponentInputs :
          create_maintenance(s, e, components)
    \/ \E m \in DOMAIN maintenance_window, s, e \in MaintenanceUpdateTimes :
          update_maintenance(m, s, e)
    \/ \E m \in DOMAIN maintenance_window :
          start_maintenance(m)
    \/ \E m \in DOMAIN maintenance_window :
          complete_maintenance(m)
    \/ \E m \in DOMAIN maintenance_window :
          cancel_maintenance(m)

SpecMaintenance == InitMaintenance /\ [][NextMaintenance]_vars

\* C30: every maintenance window starts before it ends, whatever
\* create_maintenance and update_maintenance calls have been made.
C30_StartBeforeEnd ==
    \A m \in DOMAIN maintenance_window :
        maintenance_window[m].start_at < maintenance_window[m].end_at

(***************************************************************************)
(* Properties of the incident lifecycle                                    *)
(***************************************************************************)
\* The step is a call of add_incident_update or resolve_incident: it answers
\* as one of the two and writes nothing but the incident table and the clock.
ManualEdit ==
    /\ response'.op \in {"add_incident_update", "resolve_incident"}
    /\ UNCHANGED <<component, component_group, maintenance_window, datasource,
                   external_incident, provider, pd_edited, run, hung, settled, fnVars>>

\* C31: resolved is terminal for manual edits.  A call of add_incident_update
\* or resolve_incident leaves every resolved incident as it is (status,
\* resolved_at, timeline); a call that is accepted has added one entry to the
\* timeline of one incident that was not resolved and has left the others
\* alone, so a call on a resolved incident is rejected.
C31_ResolvedIsTerminal ==
    [][ManualEdit =>
          /\ DOMAIN incident' = DOMAIN incident
          /\ \A i \in DOMAIN incident :
                incident[i].status = "resolved" => incident'[i] = incident[i]
          /\ response'.rejected => incident' = incident
          /\ ~response'.rejected =>
                \E i \in DOMAIN incident :
                    /\ incident[i].status # "resolved"
                    /\ Len(incident'[i].updates) = Len(incident[i].updates) + 1
                    /\ \A j \in DOMAIN incident \ {i} : incident'[j] = incident[j]]_vars

\* resolve_incident has been rejected while an incident resolved by an
\* earlier manual edit is stored with its timeline.
C31_Witness ==
    /\ response = Rejected("resolve_incident")
    /\ \E i \in DOMAIN incident :
          /\ incident[i].status = "resolved"
          /\ Len(incident[i].updates) = 2
          /\ incident[i].updates[2] = "resolved"

(***************************************************************************)
(* Lifecycle: the incident that an earlier sync made of P1 (InitLinked) is *)
(* edited by hand while sync requests, one at a time, are served for its   *)
(* datasource d2 and P1 changes status at PagerDuty.                       *)
(***************************************************************************)
\* The status field of an IncidentUpdateCreate (schemas.py): not given, or
\* any IncidentStatus.
StatusInputs == {None} \cup IncidentStatus

NextLifecycle ==
    \/ \E i \in DOMAIN incident, s \in StatusInputs : add_incident_update(i, s)
    \/ \E i \in DOMAIN incident : resolve_incident(i)
    \/ sync_datasource("r1", "d2")
    \/ merge_active("r1")
    \/ fetch_active_failed("r1")
    \/ merge_resolved("r1")
    \/ fetch_resolved_failed("r1")
    \/ \E st \in PdStatus : ProviderChange("d2", "P1", st)

SpecLifecycle == InitLinked /\ [][NextLifecycle]_vars

\* The place of a status in the lifecycle.
Stage(status) ==
    CASE status = "investigating" -> 1
      [] status = "identified" -> 2
      [] status = "monitoring" -> 3
      [] status = "resolved" -> 4

\* C32: the status of an incident only moves forward through investigating,
\* identified, monitoring, resolved: no step, of a manual update or of a sync
\* run, takes an incident to an earlier stage.
C32_StatusMovesForward ==
    [][\A i \in DOMAIN incident :
          Stage(incident'[i].status) >= Stage(incident[i].status)]_vars

\* C33: an incident whose status is resolved has a resolved_at, whichever
\* operation resolved it.
C33_ResolvedHasResolvedAt ==
    \A i \in DOMAIN incident :
        incident[i].status = "resolved" => incident[i].resolved_at # NoTime

\* C34: an incident with a resolved_at has the status resolved: no sync run
\* takes a resolved incident back to an unresolved status.
C34_ResolvedStaysResolved ==
    \A i \in DOMAIN incident :
        incident[i].resolved_at # NoTime => incident[i].status = "resolved"

(***************************************************************************)
(* Properties of the maintenance handlers                                  *)
(***************************************************************************)
\* The status changes the handlers are meant to make.
MaintenanceMoves ==
    {<<"scheduled", "in_progress">>, <<"in_progress", "completed">>,
     <<"scheduled", "canceled">>, <<"in_progress", "canceled">>}

\* C35: a maintenance window's status changes only along scheduled ->
\* in_progress (start), in_progress -> completed (complete), scheduled ->
\* canceled and in_progress -> canceled (cancel); a completed or canceled
\* window never changes again; a start, complete, cancel or update call that
\* is rejected leaves the windows as they are, and one that is accepted has
\* made the move of its handler (an update: no move) on a window whose
\* status allowed it.
C35_MaintenanceMoves ==
    [][/\ \A m \in DOMAIN maintenance_window :
             /\ m \in DOMAIN maintenance_window'
             /\ maintenance_window'[m].status # maintenance_window[m].status =>
                   <<maintenance_window[m].status, maintenance_window'[m].status>>
                       \in MaintenanceMoves
             /\ maintenance_window[m].status \in {"completed", "canceled"} =>
                   maintenance_window'[m] = maintenance_window[m]
       /\ LET moved(from, to) ==
                  \E m \in DOMAIN maintenance_window :
                      /\ maintenance_window[m].status \in from
                      /\ maintenance_window'[m].status = to
                      /\ \A k \in DOMAIN maintenance_window \ {m} :
                            maintenance_window'[k] = maintenance_window[k]
              op == response'.op
          IN  response' # response =>
                /\ op \in {"start_maintenance", "complete_maintenance",
                           "cancel_maintenance", "update_maintenance"}
                      /\ response'.rejected
                      => maintenance_window' = maintenance_window
                /\ op = "start_maintenance" /\ ~response'.rejected
                      => moved({"scheduled"}, "in_progress")
                /\ op = "complete_maintenance" /\ ~response'.rejected
                      => moved({"in_progress"}, "completed")
                /\ op = "cancel_maintenance" /\ ~response'.rejected
                      => moved({"scheduled", "in_progress"}, "canceled")
                /\ op = "update_maintenance" /\ ~response'.rejected
                      => \A m \in DOMAIN maintenance_window :
                            /\ maintenance_window'[m].status = maintenance_window[m].status
                            /\ maintenance_window[m].status \in {"scheduled", "in_progress"}
                                  \/ maintenance_window'[m] = maintenance_window[m]]_vars

\* update_maintenance has been rejected on a window that was started and
\* completed.
C35_Witness ==
    /\ response = Rejected("update_maintenance")
    /\ \E m \in DOMAIN maintenance_window : maintenance_window[m].status = "completed"

(***************************************************************************)
(* Activation: the components of the group g1, c1 of tier 0 and c2 of tier *)
(* 3, are switched off and on while incidents are opened on them and the   *)
(* overview is read.                                                       *)
(***************************************************************************)
TierZeroCatalog ==
    [c \in Comps |-> [tier |-> IF c = "c1" THEN MinTier ELSE MaxTier,
                      is_active |-> TRUE, group_id |-> "g1"]]

InitActive ==
    /\ component = TierZeroCatalog
    /\ component_group = GroupOrder
    /\ provider = NothingAtProvider
    /\ Started
    /\ pd_edited = {}
    /\ CsIdle
    /\ GsIdle
    /\ MapIdle

NextActive ==
    \/ \E c \in Comps, is_active \in IsActiveInputs :
          update_component(c, Unset, is_active)
    \/ \E components \in IncidentComponentInputs : create_incident(components)
    \/ \E i \in DOMAIN incident : resolve_incident(i)
    \/ get_status_overview

SpecActive == InitActive /\ [][NextActive]_vars

\* C36: only active components contribute to the overview just returned.  No
\* inactive component is listed in a group; a global status other than
\* operational comes from a link of an unresolved incident to an active
\* component, and major_outage from an outage link to an active component.
C36_OnlyActiveContribute ==
    (response.op = "get_status_overview" /\ ~response.rejected) =>
        /\ \A g \in DOMAIN response.groups :
              \A k \in DOMAIN response.groups[g].components :
                  component[response.groups[g].components[k].id].is_active
        /\ response.global_status # "operational" =>
              \E c \in Comps, impact \in Impact :
                  component[c].is_active /\ UnresolvedLink(c, impact)
        /\ response.global_status = "major_outage" =>
              \E c \in Comps : component[c].is_active /\ UnresolvedLink(c, "outage")

\* The overview is operational and lists c2 alone while the inactive tier-0
\* component c1 has an outage link from an unresolved incident.
C36_Witness ==
    /\ response.op = "get_status_overview"
    /\ ~response.rejected
    /\ response.global_status = "operational"
    /\ Len(response.groups) = 1
    /\ Len(response.groups[1].components) = 1
    /\ ~component["c1"].is_active
    /\ component["c1"].tier = 0
    /\ UnresolvedLink("c1", "outage")

(***************************************************************************)
(* Properties of the sync request                                          *)
(***************************************************************************)
\* The step is a call of sync_datasource that returned at once for the run r:
\* the request is answered, the clock of the handler has moved, r is done
\* and no other run has changed.
ReturnsAtOnce(r) ==
    /\ response'.op = "sync_datasource"
    /\ now' # now
    /\ run'[r].pc = "done"
    /\ \A q \in Runs \ {r} : run'[q] = run[q]

\* C37: a sync call that fails on the configuration (a config that does not
\* decode, or no API key) returns before it touches anything: the datasource
\* rows (sync_status, sync_error, last_sync_at), the incidents and the links
\* are as before.
C37_ConfigFailureTouchesNothing ==
    [][\A r \in Runs :
          (/\ ReturnsAtOnce(r)
           /\ datasource[run'[r].datasource_id].provider_type = "pagerduty"
           /\ datasource[run'[r].datasource_id].config # "valid")
          => /\ datasource' = datasource
             /\ incident' = incident
             /\ external_incident' = external_incident]_vars

\* A sync of d1 has failed on the configuration after an earlier sync of d1
\* succeeded and stored a link: the row still says success.
C37_Witness ==
    /\ run["r1"].pc = "done"
    /\ run["r1"].datasource_id = "d1"
    /\ run["r1"].result.raised
    /\ datasource["d1"].config # "valid"
    /\ datasource["d1"].sync_status = "success"
    /\ datasource["d1"].last_sync_at # NoTime
    /\ LinkRows("d1", "P1") # {}

(***************************************************************************)
(* Providers: d2 has been created with provider_type opsgenie, which       *)
(* DatasourceCreate (datasources.py 45) accepts; sync requests, one at a   *)
(* time, are served for d1 and d2.                                         *)
(***************************************************************************)
InitProvider ==
    /\ component = DefaultCatalog
    /\ component_group = GroupOrder
    /\ provider = NothingAtProvider
    /\ pd_edited = {}
    /\ incident = <<>>
    /\ maintenance_window = <<>>
    /\ datasource = [DatasourceRows EXCEPT !["d2"].provider_type = "opsgenie"]
    /\ external_incident = <<>>
    /\ run = [r \in Runs |-> IdleRun]
    /\ hung = FALSE
    /\ settled = [d \in Datasources |-> FALSE]
    /\ now = StartTime
    /\ response = Accepted("startup")
    /\ CsIdle
    /\ GsIdle
    /\ MapIdle

NextProvider ==
    \/ \E d \in Datasources : sync_datasource("r1", d)
    \/ merge_active("r1")
    \/ fetch_active_failed("r1")
    \/ merge_resolved("r1")
    \/ fetch_resolved_failed("r1")
    \/ \E d \in Datasources, st \in PdStatus : ProviderChange(d, "P1", st)

SpecProvider == InitProvider /\ [][NextProvider]_vars

\* C38: a manual sync of a datasource whose provider_type has no sync
\* implementation returns success = false with an "Unknown provider" error
\* and leaves the datasource rows, the incidents and the links as they are.
C38_UnknownProviderTouchesNothing ==
    [][\A r \in Runs :
          (/\ ReturnsAtOnce(r)
           /\ datasource[run'[r].datasource_id].provider_type # "pagerduty")
          => /\ ~run'[r].result.raised
             /\ ~run'[r].result.success
             /\ run'[r].result.error = "Unknown provider"
             /\ datasource' = datasource
             /\ incident' = incident
             /\ external_incident' = external_incident]_vars

\* The sync of the opsgenie datasource d2 has been answered after a sync of d1
\* stored a link: d2 is idle and never synced, as it was created.
C38_Witness ==
    /\ run["r1"].pc = "done"
    /\ run["r1"].datasource_id = "d2"
    /\ run["r1"].result.error = "Unknown provider"
    /\ datasource["d2"].provider_type = "opsgenie"
    /\ datasource["d2"].sync_status = "idle"
    /\ datasource["d2"].last_sync_at = NoTime
    /\ LinkRows("d1", "P1") # {}
    /\ LinkRows("d2", "P1") = {}
    /\ provider["d2"]["P1"] = "triggered"

\* C39: no sync run executes for a disabled datasource: while enabled is
\* false its sync_status does not become syncing and no link (with its
\* incident) is created or updated from it, also on a manual trigger.
C39_DisabledIsNotSynced ==
    [][\A d \in Datasources :
          (~datasource[d].enabled /\ ~datasource'[d].enabled) =>
              /\ datasource'[d].sync_status = "syncing"
                    => datasource[d].sync_status = "syncing"
              /\ LinksOf(external_incident', d) = LinksOf(external_incident, d)]_vars

\* C40: the dedup key is the pair (datasource_id, external_id).  Links of two
\* datasources with the same external_id are links to two incidents; a run
\* that ends in success for a datasource whose open record did not change
\* meanwhile leaves a link of that datasource for the record, whatever links
\* the other datasource holds; and no step of a run for one datasource
\* changes an incident linked through another datasource.
C40_KeyIsThePair ==
    [][/\ \A j, k \in DOMAIN external_incident' :
             (/\ external_incident'[j].external_id = external_incident'[k].external_id
              /\ external_incident'[j].datasource_id # external_incident'[k].datasource_id)
                 => external_incident'[j].incident_id # external_incident'[k].incident_id
       /\ \A r \in Runs :
             run'[r].pc # run[r].pc =>
                 /\ \A k \in DOMAIN external_incident :
                       external_incident[k].datasource_id # run'[r].datasource_id
                          => incident'[external_incident[k].incident_id]
                                = incident[external_incident[k].incident_id]
                 /\ (EndsInSuccess(r) /\ run[r].steady) =>
                       \A e \in ExtIds :
                           provider[run[r].datasource_id][e] \in {"triggered", "acknowledged"}
                              => \E k \in DOMAIN external_incident' :
                                    /\ external_incident'[k].datasource_id = run[r].datasource_id
                                    /\ external_incident'[k].external_id = e]_vars

\* P1 of d1 and P1 of d2 are linked to two incidents, and the one of d1 has
\* moved on (identified or resolved) while the one of d2 is as it was made.
C40_Witness ==
    \E j, k \in DOMAIN external_incident :
        /\ external_incident[j].datasource_id = "d1"
        /\ external_incident[k].datasource_id = "d2"
        /\ external_incident[j].external_id = "P1"
        /\ external_incident[k].external_id = "P1"
        /\ external_incident[j].incident_id # external_incident[k].incident_id
        /\ incident[external_incident[j].incident_id].status # "investigating"
        /\ incident[external_incident[k].incident_id].status = "investigating"
=============================================================================
